---- MODULE Spec2Model ----
(***************************************************************************)
(* Domain scoring engine of domdropio: the traffic estimators, the          *)
(* TrafficAnalyzer orchestrator (Scheme A), the AdvancedTrafficDetector     *)
(* orchestrator (Scheme B) with the importer / scheduler that stores its    *)
(* records, the HybridAnalyzer with its result cache and its batches, the   *)
(* store-backed analyzeDomain, and passes that share the store.             *)
(*                                                                          *)
(* Each subsystem has its own variable and its own specification; a         *)
(* specification leaves the variables of the other subsystems at Idle.      *)
(***************************************************************************)
EXTENDS Integers, Sequences, FiniteSets, TLC

VARIABLES est, ta, det, imp, hy, ab, sa, ps, ep, rt, pf

vars == <<est, ta, det, imp, hy, ab, sa, ps, ep, rt, pf>>

Idle == [pc |-> "idle"]

(***************************************************************************)
(* Values of the JavaScript runtime.                                        *)
(***************************************************************************)
\* NaN is held as -1: no count, score or estimate of the program is negative,
\* and every operator below that takes a number tests for it first
NaN == 0 - 1
Null == "null"

\* Math.min(a, b): NaN when either argument is NaN
MathMin(a, b) == IF a = NaN \/ b = NaN THEN NaN ELSE IF a < b THEN a ELSE b

\* a + b and a * b on numbers: NaN propagates
Plus(a, b) == IF a = NaN \/ b = NaN THEN NaN ELSE a + b
Times(a, b) == IF a = NaN \/ b = NaN THEN NaN ELSE a * b

\* a > b on numbers: every comparison with NaN is false
Greater(a, b) == a # NaN /\ b # NaN /\ a > b

(***************************************************************************)
(* Math.random(): a draw r stands for the value r / RandDen of [0, 1); the  *)
(* draw RandDen stands for the largest double below 1.                      *)
(***************************************************************************)
RandDen == 2

Random == 0..RandDen

\* Math.floor(Math.random() * n) for the draw r
RandomFloor(r, n) == IF r = RandDen THEN n - 1 ELSE (r * n) \div RandDen

(***************************************************************************)
(* Traffic estimators.                                                      *)
(***************************************************************************)
MaxScore == 100

EstimateTrafficLowBase(score, r) ==
    IF score >= 90 THEN 15000 + RandomFloor(r, 5000)
    ELSE IF score >= 80 THEN 10000 + RandomFloor(r, 5000)
    ELSE IF score >= 70 THEN 5000 + RandomFloor(r, 5000)
    ELSE IF score >= 60 THEN 2000 + RandomFloor(r, 3000)
    ELSE IF score >= 50 THEN 1000 + RandomFloor(r, 1000)
    ELSE IF score >= 40 THEN 500 + RandomFloor(r, 500)
    ELSE IF score >= 30 THEN 200 + RandomFloor(r, 300)
    ELSE IF score >= 20 THEN 50 + RandomFloor(r, 150)
    ELSE IF score >= 10 THEN RandomFloor(r, 50)
    ELSE RandomFloor(r, 10)

EstimateTrafficSwapped(score, r) ==
    IF score >= 90 THEN 15000 + RandomFloor(r, 5000)
    ELSE IF score >= 80 THEN 10000 + RandomFloor(r, 5000)
    ELSE IF score >= 70 THEN 2000 + RandomFloor(r, 3000)
    ELSE IF score >= 60 THEN 5000 + RandomFloor(r, 5000)
    ELSE IF score >= 50 THEN 1000 + RandomFloor(r, 1000)
    ELSE IF score >= 40 THEN 500 + RandomFloor(r, 500)
    ELSE IF score >= 30 THEN 200 + RandomFloor(r, 300)
    ELSE IF score >= 20 THEN 50 + RandomFloor(r, 150)
    ELSE IF score >= 10 THEN RandomFloor(r, 50)
    ELSE 0

\* TrafficAnalyzer.estimateTraffic(score), Math.random() drawn as r
TrafficAnalyzer_estimateTraffic(score, r) ==
    IF score >= 90 THEN 15000 + RandomFloor(r, 5000)
    ELSE IF score >= 80 THEN 10000 + RandomFloor(r, 5000)
    ELSE IF score >= 70 THEN 5000 + RandomFloor(r, 5000)
    ELSE IF score >= 60 THEN 2000 + RandomFloor(r, 3000)
    ELSE IF score >= 50 THEN 1000 + RandomFloor(r, 1000)
    ELSE IF score >= 40 THEN 500 + RandomFloor(r, 500)
    ELSE IF score >= 30 THEN 200 + RandomFloor(r, 300)
    ELSE IF score >= 20 THEN 50 + RandomFloor(r, 150)
    ELSE IF score >= 10 THEN RandomFloor(r, 50)
    ELSE 0

\* InstantTrafficAnalyzer.estimateTraffic(score): traffic starts at 0 and the
\* else-if chain assigns it
InstantTrafficAnalyzer_estimateTraffic(score, r) ==
    IF score >= 90 THEN 15000 + RandomFloor(r, 5000)
    ELSE IF score >= 80 THEN 10000 + RandomFloor(r, 5000)
    ELSE IF score >= 70 THEN 5000 + RandomFloor(r, 5000)
    ELSE IF score >= 60 THEN 2000 + RandomFloor(r, 3000)
    ELSE IF score >= 50 THEN 1000 + RandomFloor(r, 1000)
    ELSE IF score >= 40 THEN 500 + RandomFloor(r, 500)
    ELSE IF score >= 30 THEN 200 + RandomFloor(r, 300)
    ELSE IF score >= 20 THEN 50 + RandomFloor(r, 150)
    ELSE IF score >= 10 THEN RandomFloor(r, 50)
    ELSE 0

(***************************************************************************)
(* Scheme B keeps fractional scores (snapshots * 1.5, recent / 12 * 5,      *)
(* pages * 0.5): they are held in twelfths, 12 standing for 1 point.        *)
(***************************************************************************)
ScoreUnit == 12

\* the inline estimator of calculate_comprehensive_traffic_score; finalScore
\* is in twelfths (or NaN, for which every comparison is false)
Detector_estimateTraffic(finalScore, r) ==
    IF Greater(finalScore, 80 * ScoreUnit) THEN RandomFloor(r, 15000) + 5000
    ELSE IF Greater(finalScore, 60 * ScoreUnit) THEN RandomFloor(r, 4000) + 1000
    ELSE IF Greater(finalScore, 40 * ScoreUnit) THEN RandomFloor(r, 900) + 100
    ELSE IF Greater(finalScore, 20 * ScoreUnit) THEN RandomFloor(r, 90) + 10
    ELSE RandomFloor(r, 10)

(***************************************************************************)
(* The estimators applied to every score of 0..100 and every draw.          *)
(***************************************************************************)
Estimators == {"TrafficAnalyzer", "InstantTrafficAnalyzer", "AdvancedTrafficDetector"}

Estimate(fn, score, r) ==
    CASE fn = "TrafficAnalyzer" -> TrafficAnalyzer_estimateTraffic(score, r)
      [] fn = "InstantTrafficAnalyzer" -> InstantTrafficAnalyzer_estimateTraffic(score, r)
      [] fn = "AdvancedTrafficDetector" -> Detector_estimateTraffic(score * ScoreUnit, r)

SetMin(S) == CHOOSE x \in S : \A y \in S : x <= y

\* the least value the estimator fn can return for score, over all draws
MinPossible(fn, score) == SetMin({Estimate(fn, score, r) : r \in Random})

EstInit ==
    /\ est \in [pc : {"call"}, fn : {"none"}, score : 0..MaxScore, score2 : 0..MaxScore,
                r : Random, traffic : {0}, min1 : {0}, min2 : {0}]
    /\ est.score <= est.score2
    /\ ta = Idle /\ det = Idle /\ imp = Idle /\ hy = Idle /\ ab = Idle /\ sa = Idle /\ ps = Idle
    /\ ep = Idle /\ rt = Idle /\ pf = Idle

CallEstimator(fn) ==
    /\ est.pc = "call"
    /\ est' = [est EXCEPT !.pc = "returned", !.fn = fn,
                          !.traffic = Estimate(fn, est.score, est.r),
                          !.min1 = MinPossible(fn, est.score),
                          !.min2 = MinPossible(fn, est.score2)]
    /\ UNCHANGED <<ta, det, imp, hy, ab, sa, ps, ep, rt, pf>>

CallTrafficAnalyzerEstimate == CallEstimator("TrafficAnalyzer")
CallInstantEstimate == CallEstimator("InstantTrafficAnalyzer")
CallDetectorEstimate == CallEstimator("AdvancedTrafficDetector")

EstNext ==
    \/ CallTrafficAnalyzerEstimate
    \/ CallInstantEstimate
    \/ CallDetectorEstimate

SpecEstimate == EstInit /\ [][EstNext]_vars

(***************************************************************************)
(* TrafficAnalyzer (Scheme A): the two probes, the aggregator and the       *)
(* orchestrator analyzeDomain with its progress callback.                   *)
(*                                                                          *)
(* A date is held as its age: the whole days between it and the time of     *)
(* the run. lastSeen is [kind, age] with kind "null" (no date), "invalid"   *)
(* (the Invalid Date that new Date(NaN, NaN, NaN) builds) or "date".        *)
(***************************************************************************)
MaxAgeDays == 185
MaxAnswers == 2

NoDate == [kind |-> "null", age |-> 0]
InvalidDate == [kind |-> "invalid", age |-> 0]
DateOfAge(a) == [kind |-> "date", age |-> a]

\* What fetch() of the DNS-over-HTTPS resolver can produce: a rejected fetch, a
\* response that is not ok, a body that is no JSON, or a JSON body. Answer is
\* absent, an array of record types or a value that is no array (a string).
DnsRecordTypes == {1, 5}

DnsAnswers == UNION {[1..n -> DnsRecordTypes] : n \in 0..MaxAnswers}

DnsResponses ==
    [kind : {"reject", "notok", "badjson", "null"}, answer : {"absent"}, types : {<<>>}]
    \cup [kind : {"json"}, answer : {"absent", "string"}, types : {<<>>}]
    \cup [kind : {"json"}, answer : {"array"}, types : DnsAnswers]

\* the responses that are a failure of the request: exception, non-200 status,
\* malformed body
DnsRequestFailed(resp) ==
    resp.kind \in {"reject", "notok", "badjson", "null"} \/ resp.answer = "string"

DnsFallback == [hasNameservers |-> FALSE, hasWebsite |-> FALSE]

\* TrafficAnalyzer.checkDNS: every throw inside the try (the rejected fetch, the
\* !response.ok throw, a rejected response.json(), data.Answer of null,
\* Answer.some of a value that is no array) lands in the catch
TrafficAnalyzer_checkDNS(resp) ==
    IF resp.kind \in {"reject", "notok", "badjson", "null"} THEN DnsFallback
    ELSE IF resp.answer = "absent" THEN DnsFallback
    ELSE IF resp.answer = "string" THEN DnsFallback
    ELSE [hasNameservers |-> Len(resp.types) > 0,
          hasWebsite |-> \E i \in 1..Len(resp.types) : resp.types[i] = 1]

\* What fetch() of the Wayback availability API can produce. snapshots says
\* whether the body has archived_snapshots ("absent"), has it without closest
\* ("empty") or with closest; timestamp is closest.timestamp: absent, a value
\* that is no string ("number"), a string with fewer than 8 leading digits
\* ("garbage") or a YYYYMMDD... string, held as the age of its date.
Timestamps ==
    [kind : {"absent", "number", "garbage"}, age : {0}]
    \cup [kind : {"date"}, age : 0..MaxAgeDays]

ArchiveResponses ==
    [kind : {"reject", "notok", "badjson", "null"}, snapshots : {"absent"},
     timestamp : {[kind |-> "absent", age |-> 0]}, available : {FALSE}]
    \cup [kind : {"json"}, snapshots : {"absent", "empty"},
          timestamp : {[kind |-> "absent", age |-> 0]}, available : {FALSE}]
    \cup [kind : {"json"}, snapshots : {"closest"}, timestamp : Timestamps,
          available : BOOLEAN]

ArchiveRequestFailed(resp) ==
    \/ resp.kind \in {"reject", "notok", "badjson", "null"}
    \/ resp.snapshots = "closest" /\ resp.timestamp.kind \in {"number", "garbage"}

ArchiveFallback == [snapshots |-> 0, recentSnapshots |-> 0, lastSeen |-> NoDate]

\* TrafficAnalyzer.checkArchiveHistory; threeMonths is the length in days of
\* the three calendar months before the run (setMonth(getMonth() - 3))
TrafficAnalyzer_checkArchiveHistory(resp, threeMonths) ==
    IF resp.kind \in {"reject", "notok", "badjson", "null"} THEN ArchiveFallback
    ELSE IF resp.snapshots = "absent" THEN ArchiveFallback
    ELSE IF resp.snapshots = "empty" \/ resp.timestamp.kind = "absent" THEN ArchiveFallback
    ELSE IF resp.timestamp.kind = "number" THEN ArchiveFallback
    ELSE LET lastSeen == IF resp.timestamp.kind = "garbage" THEN InvalidDate
                         ELSE DateOfAge(resp.timestamp.age)
         IN [snapshots |-> IF resp.available THEN 1 ELSE 0,
             recentSnapshots |-> IF lastSeen.kind = "date" /\ lastSeen.age < threeMonths
                                 THEN 1 ELSE 0,
             lastSeen |-> lastSeen]

\* TrafficAnalyzer.calculateTrafficScore; monthsAgo is the age over 30 days, NaN
\* for an Invalid Date, so that no tier applies to it. Every term is an integer,
\* which Math.round leaves as it is.
TrafficAnalyzer_calculateTrafficScore(metrics) ==
    LET recent == MathMin(metrics.recentSnapshots * 40, 40)
        historical == MathMin(metrics.totalSnapshots * 40, 40)
        website == IF metrics.hasWebsite THEN 10 ELSE 0
        recency == IF metrics.lastSeen.kind # "date" THEN 0
                   ELSE IF metrics.lastSeen.age <= 30 THEN 10
                   ELSE IF metrics.lastSeen.age <= 90 THEN 5
                   ELSE IF metrics.lastSeen.age <= 180 THEN 2
                   ELSE 0
    IN MathMin(recent + historical + website + recency, 100)

\* an error event that would report no progress
ProgressPercentErrorZero(step) ==
    CASE step = "start" -> 0
      [] step = "dns" -> 25
      [] step = "archive" -> 50
      [] step = "scoring" -> 75
      [] step = "complete" -> 100
      [] step = "error" -> 0

ProgressPercent(step) ==
    CASE step = "start" -> 0
      [] step = "dns" -> 25
      [] step = "archive" -> 50
      [] step = "scoring" -> 75
      [] step = "complete" -> 100
      [] step = "error" -> 100

NoRecord == [status |-> "none", traffic_score |-> 0, estimated_traffic |-> 0,
             archive_snapshots |-> 0, last_checked |-> "none"]

TAInit ==
    /\ ta \in [pc : {"emit_start"}, hasCallback : BOOLEAN, threeMonths : 89..92,
               events : {<<>>}, dnsResp : {"none"}, archiveResp : {"none"},
               dnsStatus : {DnsFallback}, archiveData : {ArchiveFallback},
               outcome : {"pending"}, result : {NoRecord}]
    /\ est = Idle /\ det = Idle /\ imp = Idle /\ hy = Idle /\ ab = Idle /\ sa = Idle /\ ps = Idle
    /\ ep = Idle /\ rt = Idle /\ pf = Idle

\* emitProgress(step, ...) inside the try block: without a callback nothing
\* happens; the callback returns (next) or throws (into the catch block)
TAEmit(step, next) ==
    /\ ta.pc = "emit_" \o step
    /\ \/ /\ ~ta.hasCallback
          /\ ta' = [ta EXCEPT !.pc = next]
       \/ /\ ta.hasCallback
          /\ \E throws \in BOOLEAN :
                ta' = [ta EXCEPT !.events = Append(@, step),
                                 !.pc = IF throws THEN "emit_error" ELSE next]
    /\ UNCHANGED <<est, det, imp, hy, ab, sa, ps, ep, rt, pf>>

TAEmitStart == TAEmit("start", "emit_dns")

\* emitProgress('dns') and the fetch that checkDNS issues
TAEmitDns == TAEmit("dns", "await_dns")

\* the resolver answers: checkDNS settles
TADnsResponse ==
    /\ ta.pc = "await_dns"
    /\ \E resp \in DnsResponses :
          ta' = [ta EXCEPT !.pc = "emit_archive",
                           !.dnsResp = IF DnsRequestFailed(resp) THEN "failed" ELSE "ok",
                           !.dnsStatus = TrafficAnalyzer_checkDNS(resp)]
    /\ UNCHANGED <<est, det, imp, hy, ab, sa, ps, ep, rt, pf>>

\* emitProgress('archive') and the fetch that checkArchiveHistory issues
TAEmitArchive == TAEmit("archive", "await_archive")

\* the archive answers: checkArchiveHistory settles
TAArchiveResponse ==
    /\ ta.pc = "await_archive"
    /\ \E resp \in ArchiveResponses :
          ta' = [ta EXCEPT !.pc = "emit_scoring",
                           !.archiveResp = IF ArchiveRequestFailed(resp) THEN "failed" ELSE "ok",
                           !.archiveData = TrafficAnalyzer_checkArchiveHistory(resp, ta.threeMonths)]
    /\ UNCHANGED <<est, det, imp, hy, ab, sa, ps, ep, rt, pf>>

TAEmitScoring == TAEmit("scoring", "emit_complete")

\* calculateTrafficScore, estimateTraffic, emitProgress('complete') and the
\* return of the record
TAScoreAndComplete ==
    /\ ta.pc = "emit_complete"
    /\ \E r \in Random, throws \in BOOLEAN :
          LET trafficScore == TrafficAnalyzer_calculateTrafficScore(
                                  [recentSnapshots |-> ta.archiveData.recentSnapshots,
                                   totalSnapshots |-> ta.archiveData.snapshots,
                                   hasWebsite |-> ta.dnsStatus.hasWebsite,
                                   lastSeen |-> ta.archiveData.lastSeen])
              estimatedTraffic == TrafficAnalyzer_estimateTraffic(trafficScore, r)
              record == [traffic_score |-> trafficScore,
                         estimated_traffic |-> estimatedTraffic,
                         archive_snapshots |-> ta.archiveData.snapshots,
                         last_checked |-> "now",
                         status |-> IF ta.dnsStatus.hasNameservers
                                    THEN "registered" ELSE "available"]
          IN IF ~ta.hasCallback
             THEN /\ ~throws
                  /\ ta' = [ta EXCEPT !.pc = "done", !.outcome = "resolved",
                                      !.result = record]
             ELSE IF throws
             THEN ta' = [ta EXCEPT !.events = Append(@, "complete"), !.pc = "emit_error"]
             ELSE ta' = [ta EXCEPT !.events = Append(@, "complete"), !.pc = "done",
                                   !.outcome = "resolved", !.result = record]
    /\ UNCHANGED <<est, det, imp, hy, ab, sa, ps, ep, rt, pf>>

\* the catch block: emitProgress('error') is called outside any try, so a
\* callback that throws here rejects the promise of analyzeDomain; otherwise
\* the all-zero record is returned. Only a throwing callback leads here, so
\* there is a callback.
TACatch ==
    /\ ta.pc = "emit_error"
    /\ \E throws \in BOOLEAN :
          ta' = IF throws
                THEN [ta EXCEPT !.events = Append(@, "error"), !.pc = "done",
                                !.outcome = "rejected"]
                ELSE [ta EXCEPT !.events = Append(@, "error"), !.pc = "done",
                                !.outcome = "resolved",
                                !.result = [traffic_score |-> 0, estimated_traffic |-> 0,
                                            archive_snapshots |-> 0, last_checked |-> "now",
                                            status |-> "error"]]
    /\ UNCHANGED <<est, det, imp, hy, ab, sa, ps, ep, rt, pf>>

\* the steps the program takes by itself
TAProgram ==
    \/ TAEmitStart
    \/ TAEmitDns
    \/ TAEmitArchive
    \/ TAEmitScoring
    \/ TAScoreAndComplete
    \/ TACatch

\* the steps that need an answer of the network: fetch is called with no
\* timeout and no abort signal, so nothing else ends the wait
TANetwork ==
    \/ TADnsResponse
    \/ TAArchiveResponse

TANext == TAProgram \/ TANetwork

SpecTA == TAInit /\ [][TANext]_vars

\* the program's own steps are always taken; an answer of the network is not
\* guaranteed
FairSpecTA == TAInit /\ [][TANext]_vars /\ WF_vars(TAProgram)

(***************************************************************************)
(* Character strings are sequences of one-character strings.                *)
(***************************************************************************)
\* s.includes(sub)
Includes(s, sub) ==
    \E i \in 0..(Len(s) - Len(sub)) : SubSeq(s, i + 1, i + Len(sub)) = sub

\* s.endsWith(suffix)
EndsWith(s, suffix) ==
    Len(suffix) <= Len(s) /\ SubSeq(s, Len(s) - Len(suffix) + 1, Len(s)) = suffix

Digits == <<"0", "1", "2", "3", "4", "5", "6", "7", "8", "9">>

IsDigit(c) == \E i \in 1..10 : Digits[i] = c

DigitValue(c) == (CHOOSE i \in 1..10 : Digits[i] = c) - 1

\* text.replace(/,/g, '')
RECURSIVE StripCommas(_)
StripCommas(text) ==
    IF text = <<>> THEN <<>>
    ELSE IF Head(text) = "," THEN StripCommas(Tail(text))
    ELSE <<Head(text)>> \o StripCommas(Tail(text))

RECURSIVE DigitsValue(_, _)
DigitsValue(text, acc) ==
    IF text = <<>> \/ ~IsDigit(Head(text)) THEN acc
    ELSE DigitsValue(Tail(text), acc * 10 + DigitValue(Head(text)))

\* parseInt(text, 10) of a text without sign or blanks: the value of its
\* leading digits, NaN when it starts with none
ParseInt(text) ==
    IF text = <<>> \/ ~IsDigit(Head(text)) THEN NaN ELSE DigitsValue(text, 0)

(***************************************************************************)
(* AdvancedTrafficDetector (Scheme B): the five probes, run together by     *)
(* calculate_comprehensive_traffic_score, and the importer / scheduler pass *)
(* that stores the record.                                                  *)
(***************************************************************************)
MaxPow == 3
MaxCountLen == 2
MaxTxt == 1
MaxRedirects == 5

RECURSIVE Pow4(_)
Pow4(k) == IF k = 0 THEN 1 ELSE 4 * Pow4(k - 1)

\* the numbers of rows of a listing or of records of a lookup that are tried:
\* none, or a power of four up to 4^MaxPow
Counts == {0} \cup {Pow4(k) : k \in 0..MaxPow}

Probes == {"archive", "indexing", "mail", "redirect", "parked"}

\* axios.get of the CDX listing: a rejected request (network error, status
\* outside 2xx), a 2xx status other than 200, or a 200 with a body: null, a
\* text that is no JSON, the header row alone, or the header row and rows, of
\* which recent are of the last year, old are older, invalid have a timestamp
\* that is no date; badRow says that some row holds no string.
CdxResponses ==
    [kind : {"reject", "non200"}, body : {"null"}, recent : {0}, old : {0},
     invalid : {0}, badRow : {FALSE}]
    \cup [kind : {"ok"}, body : {"null", "text", "header"}, recent : {0}, old : {0},
          invalid : {0}, badRow : {FALSE}]
    \cup [kind : {"ok"}, body : {"rows"}, recent : Counts, old : 0..1,
          invalid : 0..1, badRow : BOOLEAN]

CdxRequestFailed(resp) ==
    resp.kind \in {"reject", "non200"} \/ resp.body \in {"null", "text"} \/ resp.badRow

\* the pair [recentSnapshots, frequency]; frequency = recentSnapshots / 12 is
\* held in twelfths
ArchiveFrequencyFallback == [snapshots |-> 0, frequency |-> 0]

\* AdvancedTrafficDetector.checkArchiveFrequency
Detector_checkArchiveFrequency(resp) ==
    IF resp.kind = "reject" THEN ArchiveFrequencyFallback
    ELSE IF resp.kind = "non200" THEN ArchiveFrequencyFallback
    ELSE IF resp.body \in {"null", "header"} THEN ArchiveFrequencyFallback
    ELSE IF resp.body = "text" THEN ArchiveFrequencyFallback
    ELSE IF resp.recent + resp.old + resp.invalid = 0 THEN ArchiveFrequencyFallback
    ELSE IF resp.badRow THEN ArchiveFrequencyFallback
    ELSE [snapshots |-> resp.recent, frequency |-> resp.recent]

\* the texts that /About ([0-9,]+) results/ can capture
CountChars == {"6", ","}

CountTexts == UNION {[1..n -> CountChars] : n \in 1..MaxCountLen}

\* axios.get of the search page: about is the text captured by the pattern,
\* <<>> when the page has no "About N results"
SearchResponses ==
    [kind : {"reject", "non200"}, body : {"none"}, didNotMatch : {FALSE},
     about : {<<>>}, resultWord : {FALSE}]
    \cup [kind : {"ok"}, body : {"nonstring"}, didNotMatch : {FALSE},
          about : {<<>>}, resultWord : {FALSE}]
    \cup [kind : {"ok"}, body : {"text"}, didNotMatch : BOOLEAN,
          about : CountTexts \cup {<<>>}, resultWord : BOOLEAN]

SearchRequestFailed(resp) ==
    \/ resp.kind \in {"reject", "non200"}
    \/ resp.body = "nonstring"
    \/ resp.body = "text" /\ ~resp.didNotMatch /\ resp.about # <<>>
          /\ StripCommas(resp.about) = <<>>

\* AdvancedTrafficDetector.checkIndexingStatus
Detector_checkIndexingStatus(resp) ==
    IF resp.kind \in {"reject", "non200"} THEN 0
    ELSE IF resp.body = "nonstring" THEN 0
    ELSE IF resp.didNotMatch THEN 0
    ELSE IF resp.about # <<>> THEN ParseInt(StripCommas(resp.about))
    ELSE IF resp.resultWord THEN 1 ELSE 0

\* the three lookups of the mail probe: each fails or returns n records
MxLookups == [ok : {FALSE}, n : {0}] \cup [ok : {TRUE}, n : Counts]
TxtLookups == [ok : {FALSE}, n : {0}] \cup [ok : {TRUE}, n : 0..MaxTxt]

\* AdvancedTrafficDetector.checkDnsMailConfiguration, in halves of a point:
\* 2 per MX record, 1.5 per SPF record and per DMARC record. The SPF and the
\* DMARC lookup share one try block: the SPF records are added before the
\* DMARC lookup is awaited, and a failed TXT lookup skips the DMARC lookup
Detector_checkDnsMailConfiguration(mx, txt, dmarc) ==
    (IF mx.ok THEN mx.n * 4 ELSE 0)
    + (IF txt.ok THEN txt.n * 3 + (IF dmarc.ok THEN dmarc.n * 3 ELSE 0) ELSE 0)

\* the domain analysed and the URLs a request of http://<domain> can end at
TheDomain == <<"a", ".", "i", "o">>

UrlSame == <<"h", "t", "t", "p", ":", "/", "/", "w", ".", "a", ".", "i", "o", "/">>
UrlOther == <<"h", "t", "t", "p", ":", "/", "/", "b", ".", "i", "o", "/">>
UrlOtherWithQuery == UrlOther \o <<"?", "r", "=">> \o TheDomain
NoUrl == <<>>

FinalUrls == {UrlSame, UrlOther, UrlOtherWithQuery}

\* axios.get of http://<domain> with maxRedirects 5: a rejected request
\* (network error, status outside 2xx, more than 5 redirects) or a response
\* after redirects hops that ended at finalUrl
RedirectResponses ==
    [kind : {"reject"}, redirects : {0}, finalUrl : {NoUrl}]
    \cup [kind : {"ok"}, redirects : 0..MaxRedirects, finalUrl : FinalUrls]

RedirectFallback == [hasRedirect |-> FALSE, redirectUrl |-> NoUrl]

\* a redirect probe that does not look at the number of redirects followed
CheckRedirectsAnyCount(resp, domain) ==
    IF resp.kind = "reject" THEN RedirectFallback
    ELSE IF ~Includes(resp.finalUrl, domain)
         THEN [hasRedirect |-> TRUE, redirectUrl |-> resp.finalUrl]
         ELSE RedirectFallback

\* AdvancedTrafficDetector.checkForActiveRedirects; redirectUrl null is NoUrl
Detector_checkForActiveRedirects(resp, domain) ==
    IF resp.kind = "reject" THEN RedirectFallback
    ELSE IF resp.redirects > 0 /\ ~Includes(resp.finalUrl, domain)
         THEN [hasRedirect |-> TRUE, redirectUrl |-> resp.finalUrl]
         ELSE RedirectFallback

\* axios.get of http://<domain>: the body is no string, or a text that holds
\* none of the parking phrases, one in lower case or one in upper case
PageResponses ==
    [kind : {"reject", "non200"}, body : {"none"}]
    \cup [kind : {"ok"}, body : {"nonstring", "plain", "parked", "PARKED"}]

\* AdvancedTrafficDetector.checkForParkedDomainSigns: the content is lowered
\* before the phrases are looked for
Detector_checkForParkedDomainSigns(resp) ==
    IF resp.kind \in {"reject", "non200"} THEN FALSE
    ELSE IF resp.body = "nonstring" THEN FALSE
    ELSE resp.body \in {"parked", "PARKED"}

\* the scoring part of calculate_comprehensive_traffic_score, in twelfths of a
\* point: archiveSnapshots * 1.5 is 18 twelfths per snapshot, frequency * 5 is
\* 5 twelfths per twelfth of frequency, indexedPages * 0.5 is 6 twelfths per
\* page, mailScore * 2 is 12 twelfths per half point of mailScore
Detector_finalScore(archiveSnapshots, archiveFrequency, indexedPages, mailScore, hasRedirect, isParked) ==
    LET archiveScore == Plus(MathMin(Times(archiveSnapshots, 18), 15 * ScoreUnit),
                             MathMin(Times(archiveFrequency, 5), 10 * ScoreUnit))
        indexingScore == MathMin(Times(indexedPages, 6), 30 * ScoreUnit)
        mailConfigScore == MathMin(Times(mailScore, 12), 25 * ScoreUnit)
        redirectScore == IF hasRedirect THEN 10 * ScoreUnit ELSE 0
        parkedScore == IF isParked THEN 10 * ScoreUnit ELSE 0
    IN MathMin(Plus(Plus(Plus(Plus(archiveScore, indexingScore), mailConfigScore),
                         redirectScore), parkedScore),
               100 * ScoreUnit)

\* the object that calculate_comprehensive_traffic_score returns
Detector_results(d, r) ==
    LET finalScore == Detector_finalScore(d.archive.snapshots, d.archive.frequency,
                                          d.indexedPages, d.mailScore,
                                          d.redirect.hasRedirect, d.isParked)
    IN [archive_snapshots |-> d.archive.snapshots,
        archive_frequency |-> d.archive.frequency,
        indexed_pages |-> d.indexedPages,
        mail_score |-> d.mailScore,
        has_redirect |-> d.redirect.hasRedirect,
        redirect_url |-> d.redirect.redirectUrl,
        is_parked |-> d.isParked,
        traffic_score |-> finalScore,
        estimated_traffic |-> Detector_estimateTraffic(finalScore, r),
        has_traffic |-> Greater(finalScore, 10 * ScoreUnit)]

NoResults == [traffic_score |-> 0]

DetStart ==
    [pc |-> "probing", settled |-> {}, failed |-> {},
     archive |-> ArchiveFrequencyFallback, indexedPages |-> 0, mailScore |-> 0,
     redirect |-> RedirectFallback, isParked |-> FALSE, results |-> NoResults]

\* a probe of the Promise.all settles with value; failed records that its
\* request failed
DetSettle(probe, field, value, requestFailed) ==
    /\ det.pc = "probing"
    /\ probe \notin det.settled
    /\ det' = [det EXCEPT ![field] = value,
                          !.settled = @ \cup {probe},
                          !.failed = IF requestFailed THEN @ \cup {probe} ELSE @]
    /\ UNCHANGED <<est, ta, imp, hy, ab, sa, ps, ep, rt, pf>>

DetArchiveResponse ==
    \E resp \in CdxResponses :
        DetSettle("archive", "archive", Detector_checkArchiveFrequency(resp),
                  CdxRequestFailed(resp))

DetSearchResponse ==
    \E resp \in SearchResponses :
        DetSettle("indexing", "indexedPages", Detector_checkIndexingStatus(resp),
                  SearchRequestFailed(resp))

\* the resolver of the host answers or times out by itself: the lookups settle
DetMailLookups ==
    \E mx \in MxLookups, txt \in TxtLookups, dmarc \in TxtLookups :
        DetSettle("mail", "mailScore", Detector_checkDnsMailConfiguration(mx, txt, dmarc),
                  ~mx.ok /\ ~txt.ok)

DetRedirectResponse ==
    \E resp \in RedirectResponses :
        DetSettle("redirect", "redirect", Detector_checkForActiveRedirects(resp, TheDomain),
                  resp.kind = "reject")

\* timeout: 5000 of the request elapses: axios rejects, the catch returns
DetRedirectTimeout == DetSettle("redirect", "redirect", RedirectFallback, TRUE)

DetPageResponse ==
    \E resp \in PageResponses :
        DetSettle("parked", "isParked", Detector_checkForParkedDomainSigns(resp),
                  resp.kind \in {"reject", "non200"} \/ resp.body = "nonstring")

DetPageTimeout == DetSettle("parked", "isParked", FALSE, TRUE)

\* Promise.all has every value: the scores, the estimate and the return
DetAggregate ==
    /\ det.pc = "probing"
    /\ det.settled = Probes
    /\ \E r \in Random :
          det' = [det EXCEPT !.pc = "done", !.results = Detector_results(det, r)]
    /\ UNCHANGED <<est, ta, imp, hy, ab, sa, ps, ep, rt, pf>>

(***************************************************************************)
(* One pass of importDomains (over the CSV records) or of updateDatabase    *)
(* (over the removed domains) for one domain. A row of the store is a       *)
(* function from column names to values; texts are in a tuple.              *)
(***************************************************************************)
\* the fields of DomainAnalysis
DomainAnalysisFields ==
    {"domain", "status", "traffic_score", "estimated_traffic", "archive_snapshots",
     "indexed_pages", "social_mentions", "web_presence", "mail_score", "has_redirect",
     "redirect_url", "is_parked", "last_checked"}

\* the object literal passed to insert(): a property read from analysis is
\* undefined when analysis has no such property, and the JSON sent to the
\* store leaves out every property that is undefined
InsertPayload(domain, analysis) ==
    LET own == {"domain", "status", "last_checked"}
        keys == own \cup (DomainAnalysisFields \cap DOMAIN analysis)
    IN [k \in keys |->
            IF k = "domain" THEN domain
            ELSE IF k = "status" THEN <<"available">>
            ELSE IF k = "last_checked" THEN <<"now">>
            ELSE analysis[k]]

ExistingRow == [k \in {"domain", "status"} |->
                   IF k = "domain" THEN TheDomain ELSE <<"pending">>]

BInit ==
    /\ imp \in [pc : {"check"}, store : {{}, {ExistingRow}}, handed : {<<>>},
                log : {"none"}]
    /\ det = Idle
    /\ est = Idle /\ ta = Idle /\ hy = Idle /\ ab = Idle /\ sa = Idle /\ ps = Idle
    /\ ep = Idle /\ rt = Idle /\ pf = Idle

\* select('id').eq('domain', domain).single(): data is the row, or null when
\* there is none or the store fails; only data is looked at
ImpCheckExisting ==
    /\ imp.pc = "check"
    /\ \E storeFails \in BOOLEAN :
          LET existing == ~storeFails /\ \E row \in imp.store : row["domain"] = TheDomain
          IN IF existing
             THEN /\ imp' = [imp EXCEPT !.pc = "done", !.log = "skipped"]
                  /\ UNCHANGED det
             ELSE /\ imp' = [imp EXCEPT !.pc = "analyze"]
                  /\ det' = DetStart
    /\ UNCHANGED <<est, ta, hy, ab, sa, ps, ep, rt, pf>>

\* insert() of the record built from the analysis: the store takes the row,
\* or answers an error (the domain is there already, or the store fails); the
\* error is logged, then the pass pauses 1 s and goes on
PassInsert ==
    /\ imp.pc = "analyze"
    /\ det.pc = "done"
    /\ \E storeFails \in BOOLEAN :
          LET row == InsertPayload(TheDomain, det.results)
              taken == ~storeFails /\ ~\E old \in imp.store : old["domain"] = TheDomain
          IN imp' = [imp EXCEPT !.pc = "done",
                                !.handed = <<row>>,
                                !.store = IF taken THEN @ \cup {row} ELSE @,
                                !.log = IF taken THEN "inserted" ELSE "insert_error"]
    /\ UNCHANGED <<est, ta, det, hy, ab, sa, ps, ep, rt, pf>>

\* importDomains and updateDatabase run the same steps on the same state: the
\* pass is either of them
ImportDomains_Insert == PassInsert
UpdateDatabase_Insert == PassInsert

\* the steps the program and its timers take by themselves
BProgram ==
    \/ ImpCheckExisting
    \/ DetMailLookups
    \/ DetRedirectTimeout
    \/ DetPageTimeout
    \/ DetAggregate
    \/ ImportDomains_Insert
    \/ UpdateDatabase_Insert

\* the answers of the network, which may never come: the archive and the
\* search request are made with no timeout
BNetwork ==
    \/ DetArchiveResponse
    \/ DetSearchResponse
    \/ DetRedirectResponse
    \/ DetPageResponse

BNext == BProgram \/ BNetwork

SpecB == BInit /\ [][BNext]_vars

FairSpecB == BInit /\ [][BNext]_vars /\ WF_vars(BProgram)

(***************************************************************************)
(* InstantTrafficAnalyzer (the heuristic scorer) and HybridAnalyzer.analyze *)
(* with its cache, for successive calls on one domain. Time is in           *)
(* milliseconds.                                                            *)
(***************************************************************************)
TickMs == 1200000
MaxTicks == 4

\* a lifetime that would still accept an entry of exactly one hour
CacheTtlInclusive == 1000 * 60 * 60 + 1

CACHE_TTL == 1000 * 60 * 60

KNOWN_TLDS == {<<".", "c", "o", "m">>, <<".", "n", "e", "t">>, <<".", "o", "r", "g">>,
               <<".", "i", "o">>}

\* /[0-9]{4}/.test(domain)
HasYearPattern(domain) ==
    \E i \in 1..(Len(domain) - 3) : \A j \in i..(i + 3) : IsDigit(domain[j])

\* domain.split('.').length
SplitLength(domain) == Cardinality({i \in 1..Len(domain) : domain[i] = "."}) + 1

\* estimateScore without the Math.max(0, ...) of its return
EstimateScoreNoFloor(domain) ==
    LET yearPattern == IF HasYearPattern(domain) THEN 10 ELSE 0
        tld == IF \E t \in KNOWN_TLDS : EndsWith(domain, t) THEN 20 ELSE 0
        length == IF Len(domain) < 15 THEN 15 ELSE 0
        subdomains == IF SplitLength(domain) > 2 THEN 0 - 10 ELSE 0
        shopKeyword == IF Includes(domain, <<"s", "h", "o", "p">>) THEN 5 ELSE 0
        blogKeyword == IF Includes(domain, <<"b", "l", "o", "g">>) THEN 5 ELSE 0
        score == yearPattern + tld + length + subdomains + shopKeyword + blogKeyword
    IN IF score < 100 THEN score ELSE 100

\* InstantTrafficAnalyzer.estimateScore
InstantTrafficAnalyzer_estimateScore(domain) ==
    LET yearPattern == IF HasYearPattern(domain) THEN 10 ELSE 0
        tld == IF \E t \in KNOWN_TLDS : EndsWith(domain, t) THEN 20 ELSE 0
        length == IF Len(domain) < 15 THEN 15 ELSE 0
        subdomains == IF SplitLength(domain) > 2 THEN 0 - 10 ELSE 0
        shopKeyword == IF Includes(domain, <<"s", "h", "o", "p">>) THEN 5 ELSE 0
        blogKeyword == IF Includes(domain, <<"b", "l", "o", "g">>) THEN 5 ELSE 0
        score == yearPattern + tld + length + subdomains + shopKeyword + blogKeyword
        capped == IF score < 100 THEN score ELSE 100
    IN IF capped > 0 THEN capped ELSE 0

\* new Date(ms).toISOString(): the text has the seconds and the milliseconds
ToISOString(ms) == [s |-> ms \div 1000, ms |-> ms % 1000]

\* new Date(text).getTime()
DateParse(text) == text.s * 1000 + text.ms

\* InstantTrafficAnalyzer.analyze at time now, Math.random() drawn as r
InstantTrafficAnalyzer_analyze(domain, r, now) ==
    LET trafficScore == InstantTrafficAnalyzer_estimateScore(domain)
    IN [domain |-> domain,
        status |-> "available",
        traffic_score |-> trafficScore,
        estimated_traffic |-> InstantTrafficAnalyzer_estimateTraffic(trafficScore, r),
        archive_snapshots |-> 0,
        indexed_pages |-> 0,
        social_mentions |-> 0,
        web_presence |-> 0,
        mail_score |-> 0,
        has_redirect |-> FALSE,
        redirect_url |-> Null,
        is_parked |-> FALSE,
        last_checked |-> ToISOString(now)]

\* HybridAnalyzer.checkDNS: false for a rejected fetch, a response that is not
\* ok and every throw (a body that is no JSON, Answer of null); otherwise
\* data.Answer?.length > 0, which a non-empty string satisfies too
HybridAnalyzer_checkDNS(resp) ==
    IF resp.kind \in {"reject", "notok", "badjson", "null"} THEN FALSE
    ELSE IF resp.answer = "absent" THEN FALSE
    ELSE IF resp.answer = "string" THEN TRUE
    ELSE Len(resp.types) > 0

\* Math.round(score * 1.5) and Math.round(score * 0.8) of an integer score
\* that is not negative: halves round up, and score * 0.8 is never a half
RoundTimes15(score) == (3 * score + 1) \div 2
RoundTimes08(score) == (8 * score + 5) \div 10

\* the analysis that HybridAnalyzer.analyze builds from the instant estimate;
\* draws are the four Math.random() values of the filler fields
HybridAnalyzer_analysis(instant, dnsActive, draws, now) ==
    [instant EXCEPT
        !.status = IF dnsActive THEN "registered" ELSE "available",
        !.traffic_score = IF dnsActive THEN RoundTimes15(instant.traffic_score)
                          ELSE RoundTimes08(instant.traffic_score),
        !.estimated_traffic = instant.estimated_traffic,
        !.archive_snapshots = RandomFloor(draws[1], 10),
        !.indexed_pages = RandomFloor(draws[2], 100),
        !.social_mentions = RandomFloor(draws[3], 50),
        !.web_presence = RandomFloor(draws[4], 100),
        !.mail_score = 0,
        !.has_redirect = FALSE,
        !.redirect_url = Null,
        !.is_parked = FALSE,
        !.last_checked = ToISOString(now)]

\* the domains analysed
SampleDomains ==
    { <<"a", ".", "i", "o">>,
      <<"s", "h", "o", "p", "1", "9", "9", "9", ".", "i", "o">>,
      <<"x", ".", "b", "l", "o", "g", ".", "a", ".", "i", "o">>,
      <<"a", ".", "b", ".", "c">>,
      <<"b", "l", "o", "g", "s", "h", "o", "p", "2", "0", "2", "4", "x", ".", "c", "o", "m">> }

\* the draws of a filler field: the least and the largest value of Math.random()
FillerDraws == {0, RandDen}

HyInit ==
    /\ hy \in [pc : {"idle"}, domain : SampleDomains, now : {0}, cache : {<<>>},
               instant : {<<>>}, returned : {<<>>}]
    /\ est = Idle /\ ta = Idle /\ det = Idle /\ imp = Idle /\ ab = Idle /\ sa = Idle /\ ps = Idle
    /\ ep = Idle /\ rt = Idle /\ pf = Idle

\* analyze(domain) is called: a fresh cache entry is returned; otherwise the
\* instant analysis is made and the DNS request is sent
HyAnalyze ==
    /\ hy.pc \in {"idle", "returned"}
    /\ IF hy.cache # <<>> /\ hy.now - DateParse(hy.cache[1].last_checked) < CACHE_TTL
       THEN hy' = [hy EXCEPT !.pc = "returned", !.returned = hy.cache,
                             !.instant = <<>>]
       ELSE \E r \in Random :
               hy' = [hy EXCEPT !.pc = "await_dns", !.returned = <<>>,
                                !.instant = <<InstantTrafficAnalyzer_analyze(hy.domain, r, hy.now)>>]
    /\ UNCHANGED <<est, ta, det, imp, ab, sa, ps, ep, rt, pf>>

\* the resolver answers: checkDNS settles (it never throws, so the catch of
\* analyze is never entered), the analysis is built, cached and returned
HyDnsResponse ==
    /\ hy.pc = "await_dns"
    /\ \E dnsActive \in {HybridAnalyzer_checkDNS(resp) : resp \in DnsResponses},
          draws \in [1..4 -> FillerDraws] :
          LET analysis == HybridAnalyzer_analysis(hy.instant[1], dnsActive, draws, hy.now)
          IN hy' = [hy EXCEPT !.pc = "returned", !.cache = <<analysis>>,
                              !.returned = <<analysis>>]
    /\ UNCHANGED <<est, ta, det, imp, ab, sa, ps, ep, rt, pf>>

\* time passes
HyTick ==
    /\ hy.now < MaxTicks * TickMs
    /\ hy' = [hy EXCEPT !.now = @ + TickMs]
    /\ UNCHANGED <<est, ta, det, imp, ab, sa, ps, ep, rt, pf>>

HyNext ==
    \/ HyAnalyze
    \/ HyDnsResponse
    \/ HyTick

SpecH == HyInit /\ [][HyNext]_vars

(***************************************************************************)
(* The estimator table of the design: base and largest jitter per bucket.   *)
(***************************************************************************)
TableBase(score) ==
    IF score >= 90 THEN 15000
    ELSE IF score >= 80 THEN 10000
    ELSE IF score >= 70 THEN 5000
    ELSE IF score >= 60 THEN 2000
    ELSE IF score >= 50 THEN 1000
    ELSE IF score >= 40 THEN 500
    ELSE IF score >= 30 THEN 200
    ELSE IF score >= 20 THEN 50
    ELSE 0

TableTop(score) ==
    IF score >= 90 THEN 19999
    ELSE IF score >= 80 THEN 14999
    ELSE IF score >= 70 THEN 9999
    ELSE IF score >= 60 THEN 4999
    ELSE IF score >= 50 THEN 1999
    ELSE IF score >= 40 THEN 999
    ELSE IF score >= 30 THEN 499
    ELSE IF score >= 20 THEN 199
    ELSE IF score >= 10 THEN 49
    ELSE 0

InBucket(score, traffic) == TableBase(score) <= traffic /\ traffic <= TableTop(score)

(***************************************************************************)
(* The claims.                                                              *)
(***************************************************************************)
ScoreInRange(score) == score # NaN /\ 0 <= score /\ score <= 100

\* C1: the traffic_score of every record produced by a scoring path lies in
\* [0, 100]: the records of TrafficAnalyzer.analyzeDomain, of
\* calculate_comprehensive_traffic_score (held in twelfths) and of
\* HybridAnalyzer.analyze.
C1_TrafficScoreInRange ==
    /\ (ta.pc = "done" /\ ta.outcome = "resolved") => ScoreInRange(ta.result.traffic_score)
    /\ det.pc = "done" =>
          /\ det.results.traffic_score # NaN
          /\ 0 <= det.results.traffic_score
          /\ det.results.traffic_score <= 100 * ScoreUnit
    /\ hy.pc = "returned" => ScoreInRange(hy.returned[1].traffic_score)

\* C2: TrafficAnalyzer.analyzeDomain never rejects: whatever the probes answer
\* and whatever the progress callback does (a throw on any event, 'error'
\* included), the call resolves with a record carrying traffic_score,
\* estimated_traffic, archive_snapshots, last_checked and status.
C2_AnalyzeDomainNeverRejects ==
    ta.pc = "done" =>
        /\ ta.outcome = "resolved"
        /\ ta.result.status \in {"registered", "available", "error"}

\* C3: when every probe of a run fails, the record returned has status 'error'
\* and every numeric field 0, estimated_traffic included (booleans false, no
\* redirect URL), for TrafficAnalyzer.analyzeDomain and for
\* calculate_comprehensive_traffic_score, whose record has no status of its own.
C3_AllProbesFailErrorRecord ==
    /\ (ta.pc = "done" /\ ta.outcome = "resolved"
           /\ ta.dnsResp = "failed" /\ ta.archiveResp = "failed") =>
          /\ ta.result.status = "error"
          /\ ta.result.traffic_score = 0
          /\ ta.result.estimated_traffic = 0
          /\ ta.result.archive_snapshots = 0
    /\ (det.pc = "done" /\ det.failed = Probes) =>
          /\ det.results.traffic_score = 0
          /\ det.results.estimated_traffic = 0
          /\ det.results.archive_snapshots = 0
          /\ det.results.indexed_pages = 0
          /\ det.results.mail_score = 0
          /\ ~det.results.has_redirect
          /\ det.results.redirect_url = NoUrl
          /\ ~det.results.is_parked

\* C4: a probe whose request failed (exception, timeout, status that is not
\* 200, malformed body) returns its fallback: checkDNS {false, false},
\* checkArchiveHistory {0, 0, null}, checkArchiveFrequency [0, 0],
\* checkIndexingStatus 0, checkForActiveRedirects [false, null],
\* checkForParkedDomainSigns false.
C4_FailedProbeReturnsFallback ==
    /\ (ta.pc # "idle" /\ ta.dnsResp = "failed") => ta.dnsStatus = DnsFallback
    /\ (ta.pc # "idle" /\ ta.archiveResp = "failed") => ta.archiveData = ArchiveFallback
    /\ det.pc # "idle" =>
          /\ "archive" \in det.failed => det.archive = ArchiveFrequencyFallback
          /\ "indexing" \in det.failed => det.indexedPages = 0
          /\ "redirect" \in det.failed => det.redirect = RedirectFallback
          /\ "parked" \in det.failed => det.isParked = FALSE

\* C5: every probe is bounded in time, so an analysis eventually returns even
\* when the network never answers one of its probes: analyzeDomain reaches its
\* return.
C5_AnalyzeDomainEventuallyReturns == <>(ta.pc = "done")

\* C5, for calculate_comprehensive_traffic_score: the pass that awaits it
\* reaches its end.
C5_PassEventuallyEnds == <>(imp.pc = "done")

\* C6: every record handed to the store by importDomains or updateDatabase has
\* a value for every field of DomainAnalysis, social_mentions and
\* web_presence included.
C6_StoredRecordComplete ==
    imp.pc # "idle" =>
        \A i \in 1..Len(imp.handed) : DomainAnalysisFields \subseteq DOMAIN imp.handed[i]

\* C7: in every record that HybridAnalyzer.analyze returns, estimated_traffic
\* lies in the bucket that the estimator table gives to the record's
\* traffic_score.
C7_HybridEstimateFromScore ==
    hy.pc = "returned" =>
        InBucket(hy.returned[1].traffic_score, hy.returned[1].estimated_traffic)

\* C8: for every integer score of 0..100 and every draw, TrafficAnalyzer.estimateTraffic
\* and InstantTrafficAnalyzer.estimateTraffic return a value inside the table's
\* bucket of the score (exactly 0 below 10), so the two functions agree on the
\* bucket of every score.
C8_EstimateInBucket ==
    (est.pc = "returned" /\ est.fn \in {"TrafficAnalyzer", "InstantTrafficAnalyzer"}) =>
        /\ InBucket(est.score, est.traffic)
        /\ InBucket(est.score, TrafficAnalyzer_estimateTraffic(est.score, est.r))
        /\ InBucket(est.score, InstantTrafficAnalyzer_estimateTraffic(est.score, est.r))

C8_Witness ==
    /\ est.pc = "returned" /\ est.fn = "InstantTrafficAnalyzer"
    /\ est.score = 65 /\ est.r = RandDen /\ est.traffic = 4999

\* C9: the record of calculate_comprehensive_traffic_score carries an
\* estimated_traffic inside the bucket that the estimator table gives to its
\* traffic_score (0 below 10, 10000..14999 for 80..89).
C9_DetectorEstimateInBucket ==
    (det.pc = "done" /\ det.results.traffic_score # NaN) =>
        InBucket(det.results.traffic_score \div ScoreUnit, det.results.estimated_traffic)

\* C10: for scores s1 < s2 of 0..100 the least possible output of an estimator at
\* s2 is at least its least possible output at s1, for each of the three estimators.
C10_BucketMonotone ==
    (est.pc = "returned" /\ est.score < est.score2) => est.min1 <= est.min2

C10_Witness ==
    /\ est.pc = "returned" /\ est.fn = "AdvancedTrafficDetector"
    /\ est.score = 20 /\ est.score2 = 21 /\ est.min1 = 0 /\ est.min2 = 10

\* C11: the traffic_score of every record produced is an integer: a whole
\* number of points for TrafficAnalyzer.analyzeDomain and HybridAnalyzer.analyze,
\* a whole multiple of ScoreUnit twelfths for
\* calculate_comprehensive_traffic_score.
C11_TrafficScoreIsInteger ==
    /\ (ta.pc = "done" /\ ta.outcome = "resolved") => ta.result.traffic_score \in 0..MaxScore
    /\ det.pc = "done" =>
          /\ det.results.traffic_score # NaN
          /\ det.results.traffic_score % ScoreUnit = 0
    /\ hy.pc = "returned" => hy.returned[1].traffic_score \in Int

(***************************************************************************)
(* HybridAnalyzer.analyzeBatch: groups of BATCH_SIZE concurrent analyze     *)
(* calls on one analyzer, a pause between groups. The calls of a group run  *)
(* up to their first await when batch.map calls them, so each has read the  *)
(* cache before any DNS answer arrives. The clock stands still during a     *)
(* batch: every cache entry written in it stays fresh.                      *)
(***************************************************************************)
BATCH_SIZE == 3
MaxBatch == 4

BatchDomains == { <<"a", ".", "i", "o">>, <<"a", ".", "b", ".", "c">> }

BatchInputs == UNION { [1..n -> BatchDomains] : n \in 0..MaxBatch }

\* a slice that would take one domain more than the group size
SliceWide(domains, from, to) ==
    [k \in 1..((IF to + 1 < Len(domains) THEN to + 1 ELSE Len(domains)) - from) |-> domains[from + k]]

\* domains.slice(from, to), from and to counted from 0
Slice(domains, from, to) ==
    [k \in 1..((IF to < Len(domains) THEN to ELSE Len(domains)) - from) |-> domains[from + k]]

\* the test of analyze on the cache entry it read
CacheFresh(entry, now) ==
    entry # <<>> /\ now - DateParse(entry[1].last_checked) < CACHE_TTL

\* analyze up to its first await: a fresh entry is returned, otherwise the
\* instant analysis is made and the DNS request is sent
HybridAnalyzer_analyzeStart(cache, domain, r, now) ==
    IF CacheFresh(cache[domain], now)
    THEN [domain |-> domain, pc |-> "settled", instant |-> <<>>, value |-> cache[domain]]
    ELSE [domain |-> domain, pc |-> "await_dns",
          instant |-> <<InstantTrafficAnalyzer_analyze(domain, r, now)>>, value |-> <<>>]

\* a Promise.all that would hand the values over last call first
PromiseAllReversed(calls) == [k \in 1..Len(calls) |-> calls[Len(calls) + 1 - k].value[1]]

\* the value of Promise.all once every call has settled: the values in the
\* order of the calls
PromiseAll(calls) == [k \in 1..Len(calls) |-> calls[k].value[1]]

\* the draws of the four filler fields of one analysis: all least or all largest
BatchDraws == { [k \in 1..4 |-> 0], [k \in 1..4 |-> RandDen] }

InFlight(calls) == {k \in 1..Len(calls) : calls[k].pc = "await_dns"}

AbInit ==
    /\ ab \in [pc : {"loop"}, domains : BatchInputs, i : {0}, calls : {<<>>},
               results : {<<>>}, cache : {[d \in BatchDomains |-> <<>>]},
               started : {0}, pauses : {0}, now : {0}, returned : {<<>>}]
    /\ est = Idle /\ ta = Idle /\ det = Idle /\ imp = Idle /\ hy = Idle
    /\ sa = Idle /\ ps = Idle
    /\ ep = Idle /\ rt = Idle /\ pf = Idle

\* the loop test holds: the group is sliced and batch.map starts its calls
AbStartGroup ==
    /\ ab.pc = "loop"
    /\ ab.i < Len(ab.domains)
    /\ LET batch == Slice(ab.domains, ab.i, ab.i + BATCH_SIZE)
       IN \E rs \in [1..Len(batch) -> {0, RandDen}] :
             ab' = [ab EXCEPT
                       !.pc = "awaiting",
                       !.started = @ + Len(batch),
                       !.calls = [k \in 1..Len(batch) |->
                                     HybridAnalyzer_analyzeStart(ab.cache, batch[k], rs[k], ab.now)]]
    /\ UNCHANGED <<est, ta, det, imp, hy, sa, ps, ep, rt, pf>>

\* the resolver answers one call of the group: its analysis is built, written
\* to the cache and returned
AbDnsResponse ==
    /\ ab.pc = "awaiting"
    /\ \E k \in InFlight(ab.calls),
          dnsActive \in {HybridAnalyzer_checkDNS(resp) : resp \in DnsResponses},
          draws \in BatchDraws :
          LET analysis == HybridAnalyzer_analysis(ab.calls[k].instant[1], dnsActive, draws, ab.now)
          IN ab' = [ab EXCEPT !.calls[k].pc = "settled",
                              !.calls[k].value = <<analysis>>,
                              !.cache[ab.calls[k].domain] = <<analysis>>]
    /\ UNCHANGED <<est, ta, det, imp, hy, sa, ps, ep, rt, pf>>

\* every call of the group has settled: Promise.all resolves, its values are
\* pushed to results, and the pause starts when domains are left
AbGroupSettled ==
    /\ ab.pc = "awaiting"
    /\ InFlight(ab.calls) = {}
    /\ ab' = [ab EXCEPT
                 !.results = @ \o PromiseAll(ab.calls),
                 !.calls = <<>>,
                 !.pc = IF ab.i + BATCH_SIZE < Len(ab.domains) THEN "pause" ELSE "loop",
                 !.pauses = IF ab.i + BATCH_SIZE < Len(ab.domains) THEN @ + 1 ELSE @,
                 !.i = IF ab.i + BATCH_SIZE < Len(ab.domains) THEN @ ELSE @ + BATCH_SIZE]
    /\ UNCHANGED <<est, ta, det, imp, hy, sa, ps, ep, rt, pf>>

\* the timer of the pause fires: the loop goes to its next group
AbPauseElapsed ==
    /\ ab.pc = "pause"
    /\ ab' = [ab EXCEPT !.pc = "loop", !.i = @ + BATCH_SIZE]
    /\ UNCHANGED <<est, ta, det, imp, hy, sa, ps, ep, rt, pf>>

\* the loop test fails: results is returned
AbReturn ==
    /\ ab.pc = "loop"
    /\ ab.i >= Len(ab.domains)
    /\ ab' = [ab EXCEPT !.pc = "done", !.returned = ab.results]
    /\ UNCHANGED <<est, ta, det, imp, hy, sa, ps, ep, rt, pf>>

AbNext ==
    \/ AbStartGroup
    \/ AbDnsResponse
    \/ AbGroupSettled
    \/ AbPauseElapsed
    \/ AbReturn

SpecBatch == AbInit /\ [][AbNext]_vars

\* C12: analyzeBatch of N domains (N >= 0, duplicates allowed) returns N
\* records, and the record at index i is the analysis of the domain at index
\* i, in whatever order the calls of a group settled.
C12_BatchResultsInInputOrder ==
    ab.pc = "done" =>
        /\ Len(ab.returned) = Len(ab.domains)
        /\ \A k \in 1..Len(ab.domains) : ab.returned[k].domain = ab.domains[k]

C12_Witness ==
    /\ ab.pc = "done"
    /\ ab.domains = << <<"a", ".", "b", ".", "c">>, <<"a", ".", "i", "o">>,
                       <<"a", ".", "i", "o">>, <<"a", ".", "b", ".", "c">> >>
    /\ Len(ab.returned) = 4
    /\ ab.returned[1].status = "available" /\ ab.returned[2].status = "registered"

\* C13: during analyzeBatch at most 3 analyses are in flight; every call in
\* flight belongs to the group being awaited, none is in flight during the
\* pause or once the batch has returned; the pause is taken between
\* consecutive groups only: a batch of N domains pauses (N - 1) \div 3 times,
\* never after its last group.
C13_AtMostThreeInFlight ==
    ab.pc # "idle" =>
        /\ Cardinality(InFlight(ab.calls)) <= 3
        /\ ab.started <= ab.i + 3
        /\ ab.pc \in {"pause", "loop", "done"} => InFlight(ab.calls) = {}
        /\ ab.pc = "pause" => ab.started < Len(ab.domains)
        /\ ab.pc = "done" =>
              ab.pauses = (IF Len(ab.domains) = 0 THEN 0 ELSE (Len(ab.domains) - 1) \div 3)

C13_Witness ==
    /\ ab.pc = "pause"
    /\ Len(ab.domains) = 4
    /\ ab.started = 3
    /\ ab.pauses = 1
    /\ Len(ab.results) = 3

\* C14: a domain has at most one analysis in flight: of two overlapping
\* analyze calls on one domain only one runs the DNS probe and writes the
\* cache, and both return the same record.
C14_OneInFlightPerDomain ==
    ab.pc # "idle" =>
        /\ \A k, l \in InFlight(ab.calls) : ab.calls[k].domain = ab.calls[l].domain => k = l
        /\ ab.pc = "awaiting" =>
              \A k, l \in 1..Len(ab.calls) :
                  (/\ ab.calls[k].domain = ab.calls[l].domain
                   /\ ab.calls[k].pc = "settled" /\ ab.calls[l].pc = "settled")
                  => ab.calls[k].value = ab.calls[l].value

\* C15: HybridAnalyzer.analyze returns the cached record, without a DNS probe,
\* only when its last_checked is less than one hour before the read; an entry
\* of one hour or more is not returned: the analysis is made again, and the
\* new record, stamped with the time it was built, replaces the entry.
C15_CachedOnlyWhenFresh ==
    [][ /\ (hy.pc \in {"idle", "returned"} /\ hy'.pc = "returned" /\ hy'.now = hy.now) =>
              /\ hy.cache # <<>>
              /\ hy.now - DateParse(hy.cache[1].last_checked) < 60 * 60 * 1000
              /\ hy'.returned = hy.cache
              /\ hy'.cache = hy.cache
        /\ (/\ hy.pc \in {"idle", "returned"} /\ hy.cache # <<>>
            /\ hy.now - DateParse(hy.cache[1].last_checked) >= 60 * 60 * 1000
            /\ hy'.now = hy.now /\ hy' # hy) =>
              hy'.pc = "await_dns"
        /\ (hy.pc = "await_dns" /\ hy'.pc = "returned") =>
              /\ hy'.cache = hy'.returned
              /\ DateParse(hy'.cache[1].last_checked) = hy.now
      ]_vars

C15_Witness ==
    /\ hy.pc = "returned"
    /\ hy.instant = <<>>
    /\ hy.returned = hy.cache
    /\ hy.now - DateParse(hy.cache[1].last_checked) = 2 * TickMs

(***************************************************************************)
(* The store-backed analyzeDomain(domain, onProgress) of lib/supabase.ts:   *)
(* look the domain up, analyse it with a HybridAnalyzer made for the call,  *)
(* write the analysis to the row. Requests follow each other while the      *)
(* clock stands still, well inside one cache lifetime.                      *)
(***************************************************************************)
MaxRetries == 3
MaxCalls == 2

\* how one attempt of an operation ends; fetch_error is the second query of
\* the update operation failing after the update was written
AttemptOutcomes == {"ok", "error", "timeout", "fetch_error"}

RECURSIVE RetryFrom(_, _)
RetryFrom(outcomes, attempt) ==
    IF outcomes[attempt] = "ok" THEN [result |-> "ok", attempts |-> attempt]
    ELSE IF outcomes[attempt] = "timeout" THEN [result |-> "timed_out", attempts |-> attempt]
    ELSE IF attempt = MaxRetries THEN [result |-> "failed", attempts |-> attempt]
    ELSE RetryFrom(outcomes, attempt + 1)

\* retryOperation(operation) with the default maxRetries, the attempts of
\* operation ending as outcomes says: the value of the first attempt that
\* succeeds, 'Operation timed out' at the first timeout, the last error after
\* maxRetries failures
retryOperation(outcomes) == RetryFrom(outcomes, 1)

\* the update was written by one of the attempts made
UpdateWritten(outcomes) ==
    \E k \in 1..retryOperation(outcomes).attempts : outcomes[k] \in {"ok", "fetch_error"}

\* the messages of the errors analyzeDomain and retryOperation make
OperationTimedOut == "Operation timed out. Please try again."
DomainNotFoundInDatabase == "Domain not found in database"

PendingRow == [status |-> "pending", traffic_score |-> 0, estimated_traffic |-> 0]

SaInit ==
    /\ sa \in [pc : {"emit_start"}, hasCallback : BOOLEAN, row : {<<>>, <<PendingRow>>},
               events : {<<>>}, calls : {1}, dnsRequests : {0}, dnsActive : {FALSE},
               instant : {<<>>}, analysis : {<<>>}, outcome : {"pending"}, now : {0},
               error : {"none"}]
    /\ est = Idle /\ ta = Idle /\ det = Idle /\ imp = Idle /\ hy = Idle
    /\ ab = Idle /\ ps = Idle
    /\ ep = Idle /\ rt = Idle /\ pf = Idle

\* if (onProgress) onProgress({ step, message, progress }): a throw of the
\* callback lands in the catch of analyzeDomain, which throws it again
SaEmit(step, progress, next) ==
    /\ sa.pc = "emit_" \o step
    /\ \/ /\ ~sa.hasCallback
          /\ sa' = [sa EXCEPT !.pc = next,
                              !.outcome = IF next = "done" THEN "resolved" ELSE @]
       \/ /\ sa.hasCallback
          /\ \E throws \in BOOLEAN :
                sa' = [sa EXCEPT
                          !.events = Append(@, [step |-> step, progress |-> progress]),
                          !.pc = IF throws THEN "done" ELSE next,
                          !.error = IF throws THEN "callback threw" ELSE @,
                          !.outcome = IF throws THEN "rejected"
                                      ELSE IF next = "done" THEN "resolved" ELSE @]
    /\ UNCHANGED <<est, ta, det, imp, hy, ab, ps, ep, rt, pf>>

SaEmitStart == SaEmit("start", 25, "select")

\* the lookup of the domain under retryOperation; no row, or a failed lookup,
\* ends the request with an error
SaSelect ==
    /\ sa.pc = "select"
    /\ \E outcomes \in [1..MaxRetries -> AttemptOutcomes \ {"fetch_error"}] :
          LET read == retryOperation(outcomes).result
              found == read = "ok" /\ sa.row # <<>>
          IN sa' = [sa EXCEPT !.pc = IF found THEN "emit_analyze" ELSE "done",
                              !.outcome = IF found THEN @ ELSE "rejected",
                              !.error = IF read = "timed_out" THEN OperationTimedOut
                                        ELSE IF read = "failed" THEN "store error"
                                        ELSE IF sa.row = <<>> THEN DomainNotFoundInDatabase
                                        ELSE @]
    /\ UNCHANGED <<est, ta, det, imp, hy, ab, ps, ep, rt, pf>>

SaEmitAnalyze == SaEmit("analyze", 50, "analyze")

\* new HybridAnalyzer() and analyze(domain) up to its await: the cache of the
\* new analyzer is empty
SaAnalyze ==
    /\ sa.pc = "analyze"
    /\ \E r \in {0, RandDen} :
          LET cache == [d \in {TheDomain} |-> <<>>]
              call == HybridAnalyzer_analyzeStart(cache, TheDomain, r, sa.now)
          IN sa' = [sa EXCEPT
                       !.pc = IF call.pc = "settled" THEN "emit_update" ELSE "await_dns",
                       !.dnsRequests = IF call.pc = "settled" THEN @ ELSE @ + 1,
                       !.instant = call.instant,
                       !.analysis = call.value]
    /\ UNCHANGED <<est, ta, det, imp, hy, ab, ps, ep, rt, pf>>

\* the resolver answers: analyze builds and returns the analysis
SaDnsResponse ==
    /\ sa.pc = "await_dns"
    /\ \E dnsActive \in {HybridAnalyzer_checkDNS(resp) : resp \in DnsResponses},
          draws \in BatchDraws :
          sa' = [sa EXCEPT
                    !.pc = "emit_update",
                    !.dnsActive = dnsActive,
                    !.analysis = <<HybridAnalyzer_analysis(sa.instant[1], dnsActive, draws, sa.now)>>]
    /\ UNCHANGED <<est, ta, det, imp, hy, ab, ps, ep, rt, pf>>

SaEmitUpdate == SaEmit("update", 75, "update")

\* an update whose failure would not be looked at
AfterUpdateUnchecked(result) == "emit_complete"

\* if (updateError || !updatedDomain) throw ...: the 'complete' event is
\* reached only with the value of a successful update operation
AfterUpdate(result) == IF result = "ok" THEN "emit_complete" ELSE "done"

\* update({status: analysis.status, ...}).eq('id', id) and the select of the
\* updated row, under retryOperation
SaUpdate ==
    /\ sa.pc = "update"
    /\ \E outcomes \in [1..MaxRetries -> AttemptOutcomes] :
          LET ok == retryOperation(outcomes).result = "ok"
              written == [status |-> sa.analysis[1].status,
                          traffic_score |-> sa.analysis[1].traffic_score,
                          estimated_traffic |-> sa.analysis[1].estimated_traffic]
          IN sa' = [sa EXCEPT
                       !.pc = AfterUpdate(retryOperation(outcomes).result),
                       !.outcome = IF ok THEN @ ELSE "rejected",
                       !.error = IF ok THEN @
                                 ELSE IF retryOperation(outcomes).result = "timed_out"
                                 THEN OperationTimedOut ELSE "store error",
                       !.row = IF UpdateWritten(outcomes) THEN <<written>> ELSE @]
    /\ UNCHANGED <<est, ta, det, imp, hy, ab, ps, ep, rt, pf>>

SaEmitComplete == SaEmit("complete", 100, "done")

\* the next request for the same domain
SaCallAgain ==
    /\ sa.pc = "done"
    /\ sa.calls < MaxCalls
    /\ sa' = [sa EXCEPT !.pc = "emit_start", !.calls = @ + 1, !.events = <<>>,
                        !.outcome = "pending", !.instant = <<>>, !.analysis = <<>>,
                        !.error = "none"]
    /\ UNCHANGED <<est, ta, det, imp, hy, ab, ps, ep, rt, pf>>

SaNext ==
    \/ SaEmitStart
    \/ SaSelect
    \/ SaEmitAnalyze
    \/ SaAnalyze
    \/ SaDnsResponse
    \/ SaEmitUpdate
    \/ SaUpdate
    \/ SaEmitComplete
    \/ SaCallAgain

SpecSA == SaInit /\ [][SaNext]_vars

\* a run of either orchestrator that reports progress
SpecProgress == (TAInit \/ SaInit) /\ [][TANext \/ SaNext]_vars

\* C16: two successive requests for one domain through the store-backed
\* analyzeDomain inside the cache lifetime send the DNS request at most once:
\* the second is served from the cached analysis.
C16_SecondRequestFromCache ==
    sa.pc # "idle" => sa.dnsRequests <= 1

Checkpoints == {0, 25, 50, 75, 100}

\* C17: the progress events of one run carry percent values among 0, 25, 50,
\* 75, 100 that never decrease; a TrafficAnalyzer.analyzeDomain run that
\* succeeds has emitted start, dns, archive, scoring, complete in that order,
\* and a store-backed analyzeDomain run that succeeds has emitted start,
\* analyze, update, complete in that order.
C17_ProgressCheckpoints ==
    /\ ta.pc # "idle" =>
          /\ \A k \in 1..Len(ta.events) : ProgressPercent(ta.events[k]) \in Checkpoints
          /\ \A k \in 1..(Len(ta.events) - 1) :
                ProgressPercent(ta.events[k]) <= ProgressPercent(ta.events[k + 1])
          /\ (/\ ta.pc = "done" /\ ta.hasCallback
              /\ ta.outcome = "resolved" /\ ta.result.status # "error") =>
                ta.events = <<"start", "dns", "archive", "scoring", "complete">>
    /\ sa.pc # "idle" =>
          /\ \A k \in 1..Len(sa.events) : sa.events[k].progress \in Checkpoints
          /\ \A k \in 1..(Len(sa.events) - 1) :
                sa.events[k].progress <= sa.events[k + 1].progress
          /\ (sa.pc = "done" /\ sa.hasCallback /\ sa.outcome = "resolved") =>
                [k \in 1..Len(sa.events) |-> sa.events[k].step]
                    = <<"start", "analyze", "update", "complete">>

C17_Witness ==
    /\ sa.pc = "done" /\ sa.hasCallback /\ sa.outcome = "resolved"
    /\ Len(sa.events) = 4
    /\ sa.events[4] = [step |-> "complete", progress |-> 100]

\* C18: 'complete' and 'error' are terminal: a run of
\* TrafficAnalyzer.analyzeDomain that reports progress emits exactly one of
\* them, as its last event, and never 'error' after 'complete'.
C18_OneTerminalEvent ==
    (ta.pc = "done" /\ ta.hasCallback) =>
        /\ Cardinality({k \in 1..Len(ta.events) : ta.events[k] \in {"complete", "error"}}) = 1
        /\ ta.events[Len(ta.events)] \in {"complete", "error"}

(***************************************************************************)
(* Passes over the shared store: importDomains and updateDatabase run the   *)
(* same loop (check, analyse, insert, pause) and may overlap. The analysis  *)
(* of a domain is abstracted to the score it yields.                        *)
(***************************************************************************)
MaxList == 2

Passes == {"importDomains", "updateDatabase"}

PassLists == UNION { [1..n -> BatchDomains] : n \in 1..MaxList }

PassScores == {0, 50}

\* a store that would take every row
StoreInsertNoUnique(store, row) == store \cup {row}

\* insert into domains: domain is UNIQUE, so a row whose domain is there
\* already is refused and the table is left as it was
StoreInsert(store, row) ==
    IF \E old \in store : old.domain = row.domain THEN store ELSE store \cup {row}

\* select('id').eq('domain', domain).single(): data is the row when exactly
\* one row matches, otherwise null
SelectSingle(store, domain) ==
    LET rows == {row \in store : row.domain = domain}
    IN IF Cardinality(rows) = 1 THEN rows ELSE {}

SeedRow == [domain |-> <<"a", ".", "i", "o">>, by |-> "seed", traffic_score |-> 0]

\* seed is the table as it was when the passes started
PsInit ==
    /\ \E seed \in {{}, {SeedRow}} :
          ps \in [pc : {"running"}, store : {seed}, seed : {seed},
                  pass : [Passes -> [pc : {"check"}, list : PassLists, k : {1},
                                     score : {0}, analysed : {{}}, log : {<<>>}]]]
    /\ est = Idle /\ ta = Idle /\ det = Idle /\ imp = Idle /\ hy = Idle
    /\ ab = Idle /\ sa = Idle
    /\ ep = Idle /\ rt = Idle /\ pf = Idle

\* the loop goes to the next domain of the pass, or ends
NextDomain(pass) ==
    [pass EXCEPT !.k = @ + 1,
                 !.pc = IF pass.k + 1 > Len(pass.list) THEN "done" ELSE "check"]

\* an exception that would end the pass, as if the try enclosed the loop
AbortPass(pass) == [pass EXCEPT !.log = Append(@, "error"), !.pc = "done"]

\* an await of the loop body throws: the catch inside the loop logs the error
\* and the loop goes on, with no pause
AfterException(pass) == NextDomain([pass EXCEPT !.log = Append(@, "error")])

\* how a store query ends: it answers, it answers an error, or the await throws
StoreOutcomes == {"ok", "error", "throws"}

\* the existence check: only data is looked at, so a failed query reads as
\* "no row"; a row found means continue, with no pause
PsCheck(p) ==
    /\ ps.pass[p].pc = "check"
    /\ \E outcome \in StoreOutcomes :
          LET pass == ps.pass[p]
              existing == IF outcome = "ok" THEN SelectSingle(ps.store, pass.list[pass.k])
                          ELSE {}
          IN ps' = [ps EXCEPT
                       !.pass[p] = IF outcome = "throws" THEN AfterException(pass)
                                   ELSE IF existing # {}
                                   THEN NextDomain([pass EXCEPT !.log = Append(@, "skipped")])
                                   ELSE [pass EXCEPT !.pc = "analyze"]]
    /\ UNCHANGED <<est, ta, det, imp, hy, ab, sa, ep, rt, pf>>

\* calculate_comprehensive_traffic_score returns, or throws
PsAnalyze(p) ==
    /\ ps.pass[p].pc = "analyze"
    /\ \/ \E score \in PassScores :
             ps' = [ps EXCEPT !.pass[p].pc = "insert", !.pass[p].score = score,
                              !.pass[p].analysed = @ \cup {ps.pass[p].k}]
       \/ ps' = [ps EXCEPT !.pass[p] = AfterException(
                              [ps.pass[p] EXCEPT !.analysed = @ \cup {ps.pass[p].k}])]
    /\ UNCHANGED <<est, ta, det, imp, hy, ab, sa, ep, rt, pf>>

\* insert(): the row is taken, or the store answers an error, which is logged
PsInsert(p) ==
    /\ ps.pass[p].pc = "insert"
    /\ \E outcome \in StoreOutcomes :
          LET pass == ps.pass[p]
              row == [domain |-> pass.list[pass.k], by |-> p, traffic_score |-> pass.score]
              store == IF outcome = "ok" THEN StoreInsert(ps.store, row) ELSE ps.store
          IN ps' = IF outcome = "throws"
                   THEN [ps EXCEPT !.pass[p] = AfterException(pass)]
                   ELSE [ps EXCEPT
                            !.store = store,
                            !.pass[p].pc = "pause",
                            !.pass[p].log = Append(@, IF store # ps.store THEN "inserted"
                                                      ELSE "insert_error")]
    /\ UNCHANGED <<est, ta, det, imp, hy, ab, sa, ep, rt, pf>>

\* the 1 s pause after an insert is over
PsPause(p) ==
    /\ ps.pass[p].pc = "pause"
    /\ ps' = [ps EXCEPT !.pass[p] = NextDomain(ps.pass[p])]
    /\ UNCHANGED <<est, ta, det, imp, hy, ab, sa, ep, rt, pf>>

PsNext ==
    \E p \in Passes :
        \/ PsCheck(p)
        \/ PsAnalyze(p)
        \/ PsInsert(p)
        \/ PsPause(p)

SpecPasses == PsInit /\ [][PsNext]_vars

\* every await of a pass settles: the store answers or fails, the analysis
\* returns or throws, the timer fires
FairSpecPasses == PsInit /\ [][PsNext]_vars /\ WF_vars(PsNext)

\* C19: whatever the interleaving of the passes (two passes that both read a
\* domain as absent before either inserts it included), the store holds at
\* most one row per domain; a pass that found a domain present has not
\* analysed it, and the rows that were there are still there, unchanged.
C19_OneRowPerDomain ==
    ps.pc # "idle" =>
        /\ \A r1, r2 \in ps.store : r1.domain = r2.domain => r1 = r2
        /\ ps.seed \subseteq ps.store
        /\ \A p \in Passes : \A k \in 1..Len(ps.pass[p].log) :
              ps.pass[p].log[k] = "skipped" => k \notin ps.pass[p].analysed

C19_Witness ==
    /\ ps.pc = "running"
    /\ ps.seed = {}
    /\ ps.pass["importDomains"].log = <<"inserted">>
    /\ ps.pass["updateDatabase"].log = <<"insert_error">>
    /\ ps.pass["importDomains"].list = ps.pass["updateDatabase"].list
    /\ Cardinality(ps.store) = 1

\* C20: the status written with a scored record comes from the DNS outcome of
\* that scoring run: 'registered' when the lookups found records, 'available'
\* when they found none, for the row the store-backed analyzeDomain updates
\* and for the rows importDomains and updateDatabase insert.
C20_StatusFromProbe ==
    /\ (sa.pc = "emit_complete") =>
          sa.row[1].status = (IF sa.dnsActive THEN "registered" ELSE "available")
    /\ imp.pc # "idle" =>
          \A k \in 1..Len(imp.handed) :
              imp.handed[k]["status"] =
                  (IF det.results.mail_score > 0 THEN <<"registered">> ELSE <<"available">>)

(***************************************************************************)
(* The analyze-domain endpoint (supabase/functions/analyze-domain). Its     *)
(* DomainAnalyzer class is not part of the sources: analyzeDomain is taken  *)
(* to return an analysis with a score, or to throw.                         *)
(***************************************************************************)
MaxRequests == 2

EpMethods == {"OPTIONS", "POST"}

\* the request body: no JSON, JSON without a domain, JSON with the domain
EpBodies == {"invalid", "no_domain", "domain"}

\* the traffic_score values DomainAnalyzer.analyzeDomain is taken to return
EpScores == {0, 35, 53, 100}

NoResponse == [status |-> 0, error |-> "none"]

\* select(...).eq('domain', domain).single() of supabase-js: data is the row
\* and error null when exactly one row matches; with no row, or when the
\* store fails, data is null and error is set
EpSingle(row, storeFails) ==
    IF storeFails THEN [data |-> <<>>, error |-> "store error"]
    ELSE IF row = <<>> THEN [data |-> <<>>, error |-> "no rows returned"]
    ELSE [data |-> row, error |-> "none"]

EpInit ==
    /\ ep \in [pc : {"request"}, method : EpMethods, body : EpBodies,
               row : {<<>>, <<PendingRow>>}, storeFailed : {FALSE}, analysed : {0},
               analysis : {<<>>}, requests : {1}, response : {NoResponse}]
    /\ est = Idle /\ ta = Idle /\ det = Idle /\ imp = Idle /\ hy = Idle
    /\ ab = Idle /\ sa = Idle /\ ps = Idle /\ rt = Idle /\ pf = Idle

\* the handler up to its first store query: the preflight answer, the body
\* parsed (a throw of req.json() lands in the catch: 500), the domain required
EpReceive ==
    /\ ep.pc = "request"
    /\ ep' = IF ep.method = "OPTIONS"
             THEN [ep EXCEPT !.pc = "responded", !.response = [status |-> 204, error |-> "none"]]
             ELSE IF ep.body = "invalid"
             THEN [ep EXCEPT !.pc = "responded",
                             !.response = [status |-> 500, error |-> "invalid JSON"]]
             ELSE IF ep.body = "no_domain"
             THEN [ep EXCEPT !.pc = "responded",
                             !.response = [status |-> 400, error |-> "Domain is required"]]
             ELSE [ep EXCEPT !.pc = "select"]
    /\ UNCHANGED <<est, ta, det, imp, hy, ab, sa, ps, rt, pf>>

\* the existence check: checkError throws into the catch (500) before the
\* test of existingDomain, whose 404 needs data null with no error
EpSelect ==
    /\ ep.pc = "select"
    /\ \E storeFails \in BOOLEAN :
          LET result == EpSingle(ep.row, storeFails)
          IN ep' = IF result.error # "none"
                   THEN [ep EXCEPT !.pc = "responded", !.storeFailed = storeFails,
                                   !.response = [status |-> 500,
                                                 error |-> "Failed to check domain"]]
                   ELSE IF result.data = <<>>
                   THEN [ep EXCEPT !.pc = "responded", !.storeFailed = storeFails,
                                   !.response = [status |-> 404, error |-> "Domain not found"]]
                   ELSE [ep EXCEPT !.pc = "analyze", !.storeFailed = storeFails]
    /\ UNCHANGED <<est, ta, det, imp, hy, ab, sa, ps, rt, pf>>

\* new DomainAnalyzer().analyzeDomain(domain) returns, or throws (500)
EpAnalyze ==
    /\ ep.pc = "analyze"
    /\ \/ \E score \in EpScores, status \in {"registered", "available"} :
             ep' = [ep EXCEPT !.pc = "update", !.analysed = @ + 1,
                              !.analysis = <<[status |-> status, traffic_score |-> score,
                                              estimated_traffic |-> 0]>>]
       \/ ep' = [ep EXCEPT !.pc = "responded", !.analysed = @ + 1,
                           !.response = [status |-> 500, error |-> "analysis failed"]]
    /\ UNCHANGED <<est, ta, det, imp, hy, ab, sa, ps, rt, pf>>

\* update({...analysis, status: 'available', last_checked}).eq('id', id)
\* .select().single(): the updated row is the answer, an error is a 500
EpUpdate ==
    /\ ep.pc = "update"
    /\ \E storeFails \in BOOLEAN :
          LET written == [ep.analysis[1] EXCEPT !.status = "available"]
          IN ep' = IF storeFails
                   THEN [ep EXCEPT !.pc = "responded", !.storeFailed = TRUE,
                                   !.response = [status |-> 500,
                                                 error |-> "Failed to update domain"]]
                   ELSE [ep EXCEPT !.pc = "responded", !.row = <<written>>,
                                   !.response = [status |-> 200, error |-> "none"]]
    /\ UNCHANGED <<est, ta, det, imp, hy, ab, sa, ps, rt, pf>>

\* the next request arrives
EpNextRequest ==
    /\ ep.pc = "responded"
    /\ ep.requests < MaxRequests
    /\ \E method \in EpMethods, body \in EpBodies :
          ep' = [ep EXCEPT !.pc = "request", !.method = method, !.body = body,
                           !.requests = @ + 1, !.storeFailed = FALSE, !.analysed = 0,
                           !.analysis = <<>>, !.response = NoResponse]
    /\ UNCHANGED <<est, ta, det, imp, hy, ab, sa, ps, rt, pf>>

EpNext ==
    \/ EpReceive
    \/ EpSelect
    \/ EpAnalyze
    \/ EpUpdate
    \/ EpNextRequest

SpecEndpoint == EpInit /\ [][EpNext]_vars

\* a re-scoring request through either entry point
SpecRescore == (SaInit \/ EpInit) /\ [][SaNext \/ EpNext]_vars

\* C21: a re-scoring request for a domain without a row ends with the 'not
\* found' error, no analysis is run and no row is written: the store-backed
\* analyzeDomain rejects with 'Domain ... not found in database' (unless the
\* lookup itself failed or the callback threw), and the endpoint answers 404
\* 'Domain not found' whenever the store answered its lookup.
C21_NotFoundIsExplicit ==
    /\ (sa.pc = "done" /\ sa.row = <<>>) =>
          /\ sa.outcome = "rejected"
          /\ sa.error \in {DomainNotFoundInDatabase, OperationTimedOut, "store error",
                           "callback threw"}
          /\ sa.analysis = <<>> /\ sa.dnsRequests = 0
    /\ (ep.pc = "responded" /\ ep.method = "POST" /\ ep.body = "domain" /\ ep.row = <<>>) =>
          /\ ep.analysed = 0
          /\ ~ep.storeFailed => ep.response = [status |-> 404, error |-> "Domain not found"]

(***************************************************************************)
(* retryOperation(operation, maxRetries, delay), attempt by attempt. A      *)
(* thrown value is an Error, a plain object with a message (the error       *)
(* object of a store answer), a string, or null.                            *)
(***************************************************************************)
DefaultDelay == 1000

MsgBoom == <<"b", "o", "o", "m">>
MsgTimeout == <<"x", " ", "t", "i", "m", "e", "o", "u", "t">>
MsgCode == <<"c", "o", "d", "e", " ", "5", "7", "0", "1", "4">>
MsgCapital == <<"T", "i", "m", "e", "o", "u", "t">>

NoMessage == <<>>

ThrownValues ==
    [kind : {"Error", "object"}, message : {MsgBoom, MsgTimeout, MsgCode, MsgCapital}]
    \cup [kind : {"string"}, message : {MsgBoom, MsgTimeout}]
    \cup [kind : {"null"}, message : {NoMessage}]

\* a classification that would know the word only
IsTimeoutWordOnly(error) ==
    error.kind \in {"Error", "object"}
    /\ Includes(error.message, <<"t", "i", "m", "e", "o", "u", "t">>)

\* error.message?.includes('timeout') || error.message?.includes('57014'): a
\* string has no message property
IsTimeoutError(error) ==
    /\ error.kind \in {"Error", "object"}
    /\ \/ Includes(error.message, <<"t", "i", "m", "e", "o", "u", "t">>)
       \/ Includes(error.message, <<"5", "7", "0", "1", "4">>)

\* error instanceof Error ? error : new Error(String(error)): String of a
\* plain object is '[object Object]', String of a string is the string
ToError(error) ==
    IF error.kind = "Error" THEN error
    ELSE IF error.kind = "object" THEN [kind |-> "Error", message |-> <<"[object Object]">>]
    ELSE IF error.kind = "string" THEN [kind |-> "Error", message |-> error.message]
    ELSE [kind |-> "Error", message |-> <<"null">>]

\* new Error('Operation timed out. Please try again.'), the message kept whole
OperationTimedOutError == [kind |-> "Error", message |-> <<OperationTimedOut>>]

\* reading error.message of null throws a TypeError inside the catch block
NullTypeError == [kind |-> "TypeError", message |-> <<"null has no properties">>]

NoValue == [kind |-> "none", message |-> NoMessage]

RtInit ==
    /\ rt \in [pc : {"attempt"}, maxRetries : 1..MaxRetries, delay : {DefaultDelay},
               attempt : {1}, calls : {0}, thrown : {<<>>}, sleeps : {<<>>},
               lastError : {NoValue}, outcome : {"pending"}, value : {NoValue}]
    /\ est = Idle /\ ta = Idle /\ det = Idle /\ imp = Idle /\ hy = Idle
    /\ ab = Idle /\ sa = Idle /\ ps = Idle /\ ep = Idle /\ pf = Idle

\* return await operation(): the attempt succeeds
RtAttemptSucceeds ==
    /\ rt.pc = "attempt"
    /\ rt' = [rt EXCEPT !.pc = "done", !.calls = @ + 1, !.outcome = "resolved",
                        !.value = [kind |-> "result", message |-> NoMessage]]
    /\ UNCHANGED <<est, ta, det, imp, hy, ab, sa, ps, ep, pf>>

\* the attempt throws: the catch block up to its sleep, or out of the function
RtAttemptFails ==
    /\ rt.pc = "attempt"
    /\ \E error \in ThrownValues :
          LET failed == [rt EXCEPT !.calls = @ + 1, !.thrown = Append(@, error),
                                   !.lastError = ToError(error)]
          IN rt' = IF error.kind = "null"
                   THEN [failed EXCEPT !.pc = "done", !.outcome = "rejected",
                                       !.value = NullTypeError]
                   ELSE IF IsTimeoutError(error)
                   THEN [failed EXCEPT !.pc = "done", !.outcome = "rejected",
                                       !.value = OperationTimedOutError]
                   ELSE IF rt.attempt = rt.maxRetries
                   THEN [failed EXCEPT !.pc = "done", !.outcome = "rejected",
                                       !.value = ToError(error)]
                   ELSE [failed EXCEPT !.pc = "sleeping",
                                       !.sleeps = Append(@, rt.delay * rt.attempt)]
    /\ UNCHANGED <<est, ta, det, imp, hy, ab, sa, ps, ep, pf>>

\* the timer of the sleep fires: the next attempt
RtSleepElapsed ==
    /\ rt.pc = "sleeping"
    /\ rt' = [rt EXCEPT !.pc = "attempt", !.attempt = @ + 1]
    /\ UNCHANGED <<est, ta, det, imp, hy, ab, sa, ps, ep, pf>>

RtNext ==
    \/ RtAttemptSucceeds
    \/ RtAttemptFails
    \/ RtSleepElapsed

SpecRetry == RtInit /\ [][RtNext]_vars

\* C22: retryOperation invokes the operation at most maxRetries times, resolves
\* with the first success without a further invocation, sleeps delay * attempt
\* after each failed attempt but the last, and after maxRetries failures
\* rejects with the error the last attempt threw.
C22_RetryBounded ==
    rt.pc # "idle" =>
        /\ rt.calls <= rt.maxRetries
        /\ rt.outcome = "resolved" => rt.calls = Len(rt.thrown) + 1
        /\ \A k \in 1..Len(rt.sleeps) : rt.sleeps[k] = rt.delay * k
        /\ rt.pc = "done" => Len(rt.sleeps) = rt.calls - 1
        /\ (rt.pc = "done" /\ rt.outcome = "rejected" /\ Len(rt.thrown) = rt.maxRetries
            /\ ~IsTimeoutError(rt.thrown[rt.maxRetries])) =>
              rt.value = rt.thrown[rt.maxRetries]

\* C30: an attempt failing with an error whose message contains 'timeout' or
\* '57014' is the last attempt: retryOperation rejects at once with 'Operation
\* timed out. Please try again.', whatever the attempt number, with no sleep
\* after it and no further invocation.
C30_TimeoutNotRetried ==
    rt.pc # "idle" =>
        \A k \in 1..Len(rt.thrown) :
            (/\ rt.thrown[k].kind \in {"Error", "object"}
             /\ \/ Includes(rt.thrown[k].message, <<"t", "i", "m", "e", "o", "u", "t">>)
                \/ Includes(rt.thrown[k].message, <<"5", "7", "0", "1", "4">>)) =>
                /\ k = Len(rt.thrown)
                /\ rt.pc = "done" /\ rt.outcome = "rejected"
                /\ rt.value = OperationTimedOutError
                /\ rt.calls = k
                /\ Len(rt.sleeps) = k - 1

C30_Witness ==
    /\ rt.pc = "done" /\ rt.maxRetries = 3 /\ rt.calls = 2
    /\ Len(rt.thrown) = 2
    /\ rt.thrown[2] = [kind |-> "object", message |-> MsgCode]
    /\ rt.value = OperationTimedOutError
    /\ rt.sleeps = <<1000>>

NameLabels == {<<>>, <<"a", ".">>, <<"a", ".", "b", ".">>}

NameKeywords ==
    {<<>>, <<"m", "y", "s", "h", "o", "p">>, <<"b", "l", "o", "g">>,
     <<"b", "l", "o", "g", "s", "h", "o", "p">>, <<"s", "h", "o">>}

NameDigits == {<<>>, <<"2", "0", "2", "4">>, <<"2", "0", "2">>, <<"1", "2", "3", "4", "5">>}

NamePadding == {<<>>, <<"x", "x", "x", "x", "x", "x", "x", "x">>}

NameEndings ==
    {<<>>, <<".", "c", "o", "m">>, <<".", "n", "e", "t">>, <<".", "o", "r", "g">>,
     <<".", "i", "o">>, <<".", "x", "y", "z">>, <<"x", "c", "o", "m">>, <<".", "c", "o", "m", "m">>}

NameParts ==
    [labels : NameLabels, keyword : NameKeywords, digits : NameDigits,
     padding : NamePadding, ending : NameEndings]

NameOf(parts) ==
    parts.labels \o parts.keyword \o parts.digits \o parts.padding \o parts.ending

PfInit ==
    /\ \E parts \in NameParts : pf = [pc |-> "input", parts |-> parts, domain |-> NameOf(parts), score |-> NaN]
    /\ est = Idle /\ ta = Idle /\ det = Idle /\ imp = Idle /\ hy = Idle /\ ab = Idle
    /\ sa = Idle /\ ps = Idle /\ ep = Idle /\ rt = Idle

PfEstimateScore ==
    /\ pf.pc = "input"
    /\ pf' = [pf EXCEPT !.pc = "scored", !.score = InstantTrafficAnalyzer_estimateScore(pf.domain)]
    /\ UNCHANGED <<est, ta, det, imp, hy, ab, sa, ps, ep, rt>>

PfNext == PfEstimateScore

SpecScore == PfInit /\ [][PfNext]_vars

\* the components the name is owed, read off its parts
OwedDigits(parts) == IF Len(parts.digits) >= 4 THEN 10 ELSE 0

OwedEnding(parts) ==
    IF parts.ending \in {<<".", "c", "o", "m">>, <<".", "n", "e", "t">>, <<".", "o", "r", "g">>, <<".", "i", "o">>}
    THEN 20 ELSE 0

OwedLength(parts) ==
    IF Len(parts.labels) + Len(parts.keyword) + Len(parts.digits) + Len(parts.padding) + Len(parts.ending) < 15
    THEN 15 ELSE 0

OwedLabels(parts) ==
    LET dots == Len(parts.labels) \div 2 + (IF parts.ending # <<>> /\ parts.ending[1] = "." THEN 1 ELSE 0)
    IN IF dots + 1 > 2 THEN 0 - 10 ELSE 0

OwedShop(parts) ==
    IF parts.keyword \in {<<"m", "y", "s", "h", "o", "p">>, <<"b", "l", "o", "g", "s", "h", "o", "p">>}
    THEN 5 ELSE 0

OwedBlog(parts) ==
    IF parts.keyword \in {<<"b", "l", "o", "g">>, <<"b", "l", "o", "g", "s", "h", "o", "p">>}
    THEN 5 ELSE 0

OwedSum(parts) ==
    OwedDigits(parts) + OwedEnding(parts) + OwedLength(parts) + OwedLabels(parts)
        + OwedShop(parts) + OwedBlog(parts)

MyShop2024 == <<"m", "y", "s", "h", "o", "p", "2", "0", "2", "4", ".", "c", "o", "m">>

\* C24: estimateScore returns the sum of its six independent components
\* (+10 four digits in a row, +20 a known ending, +15 length under 15,
\* -10 more than two labels, +5 'shop', +5 'blog') clamped to 0..100; it is
\* never negative, and 'myshop2024.com' scores 50.
C24_ScoreIsClampedSum ==
    pf.pc = "scored" =>
        /\ pf.score = (IF OwedSum(pf.parts) < 0 THEN 0
                       ELSE IF OwedSum(pf.parts) > 100 THEN 100 ELSE OwedSum(pf.parts))
        /\ pf.score >= 0
        /\ (pf.domain = MyShop2024 => pf.score = 10 + 20 + 15 + 5)

C24_Witness == pf.pc = "scored" /\ pf.domain = MyShop2024 /\ pf.score = 50

(***************************************************************************)
(* The social-mention endpoint: checkSocialPresence asks three platforms    *)
(* one after the other, each inside a try of its own, and the handler sums  *)
(* the three counts.                                                        *)
(***************************************************************************)
MaxMentions == 2

\* how a lookup ends: fetch throws; a response that is not ok; an ok response
\* whose body does not parse or is null (json() or the field access throws);
\* an ok response with or without the count field
LookupAnswers ==
    [kind : {"throws", "notok"}, hasCount : {TRUE}, count : {MaxMentions}]
        \cup [kind : {"badbody"}, hasCount : {FALSE}, count : {0}]
        \cup [kind : {"ok"}, hasCount : {FALSE}, count : {0}]
        \cup [kind : {"ok"}, hasCount : {TRUE}, count : 0..MaxMentions]

\* a lookup whose count is read whether or not the response is ok
CountedIgnoringOk(answer) ==
    IF answer.kind \in {"ok", "notok"} /\ answer.hasCount /\ answer.count # 0 THEN answer.count ELSE 0

\* if (response.ok) { data = await response.json(); results.x = data.field || 0 }
\* inside try/catch: anything thrown leaves the initial 0
Counted(answer) ==
    IF answer.kind = "ok" /\ answer.hasCount /\ answer.count # 0 THEN answer.count ELSE 0

\* if (fbResponse.ok) results.facebook = 1
FacebookCounted(answer) == IF answer.kind = "ok" THEN 1 ELSE 0

\* Object.values(results).reduce((a, b) => a + b, 0)
TotalMentions(results) == ((0 + results.twitter) + results.facebook) + results.linkedin

NoAnswer == [kind |-> "none", hasCount |-> FALSE, count |-> 0]

SpInit ==
    /\ pf = [pc |-> "twitter",
             results |-> [twitter |-> 0, facebook |-> 0, linkedin |-> 0],
             answers |-> [twitter |-> NoAnswer, facebook |-> NoAnswer, linkedin |-> NoAnswer],
             response |-> NoResponse]
    /\ est = Idle /\ ta = Idle /\ det = Idle /\ imp = Idle /\ hy = Idle /\ ab = Idle
    /\ sa = Idle /\ ps = Idle /\ ep = Idle /\ rt = Idle

SpTwitter ==
    /\ pf.pc = "twitter"
    /\ \E answer \in LookupAnswers :
          pf' = [pf EXCEPT !.pc = "facebook", !.answers.twitter = answer,
                           !.results.twitter = Counted(answer)]
    /\ UNCHANGED <<est, ta, det, imp, hy, ab, sa, ps, ep, rt>>

SpFacebook ==
    /\ pf.pc = "facebook"
    /\ \E answer \in LookupAnswers :
          pf' = [pf EXCEPT !.pc = "linkedin", !.answers.facebook = answer,
                           !.results.facebook = FacebookCounted(answer)]
    /\ UNCHANGED <<est, ta, det, imp, hy, ab, sa, ps, ep, rt>>

SpLinkedin ==
    /\ pf.pc = "linkedin"
    /\ \E answer \in LookupAnswers :
          pf' = [pf EXCEPT !.pc = "returned", !.answers.linkedin = answer,
                           !.results.linkedin = Counted(answer)]
    /\ UNCHANGED <<est, ta, det, imp, hy, ab, sa, ps, ep, rt>>

\* the handler: mentions is the reduce of the results, details the results
SpRespond ==
    /\ pf.pc = "returned"
    /\ pf' = [pf EXCEPT !.pc = "responded",
                        !.response = [status |-> 200, mentions |-> TotalMentions(pf.results)]]
    /\ UNCHANGED <<est, ta, det, imp, hy, ab, sa, ps, ep, rt>>

SpNext == SpTwitter \/ SpFacebook \/ SpLinkedin \/ SpRespond

SpecSocial == SpInit /\ [][SpNext]_vars

Platforms == {"twitter", "facebook", "linkedin"}

LookupFailed(answer) == answer.kind \in {"throws", "notok", "badbody"}

\* C25: a platform lookup that fails (an exception or a response that is not
\* ok) counts 0 for that platform and leaves the other platforms' counts as
\* their lookups returned them; the total is the sum of the three counts; the
\* probe always returns (the handler answers 200, never its catch's 500).
C25_PlatformFailuresAreIsolated ==
    pf.pc = "responded" =>
        /\ \A p \in Platforms : LookupFailed(pf.answers[p]) => pf.results[p] = 0
        /\ \A p \in {"twitter", "linkedin"} :
              (pf.answers[p].kind = "ok" /\ pf.answers[p].hasCount)
                  => pf.results[p] = pf.answers[p].count
        /\ pf.answers.facebook.kind = "ok" => pf.results.facebook = 1
        /\ pf.response.mentions = pf.results.twitter + pf.results.facebook + pf.results.linkedin
        /\ pf.response.status = 200

C25_Witness ==
    /\ pf.pc = "responded"
    /\ pf.answers.twitter.kind = "ok" /\ pf.results.twitter = MaxMentions
    /\ pf.answers.facebook.kind = "throws"
    /\ pf.answers.linkedin.kind = "ok" /\ pf.results.linkedin = 1
    /\ pf.response.mentions = MaxMentions + 1

\* the contribution of a signal of the given weight, cut at its cap
CappedPart(value, weight, cap) == MathMin(Times(value, weight), cap)

AtMost(part, cap) == part # NaN /\ part <= cap

\* C26: in both schemes every component is cut at its cap before the sum, for
\* any input: Scheme A recent <= 40, historical <= 40, website <= 10, recency
\* one of 0, 2, 5, 10; Scheme B (in twelfths) snapshots <= 15, frequency <= 10,
\* indexing <= 30, mail <= 25, redirect and parked 0 or 10; the score is the
\* sum of the capped components cut at 100.
C26_ComponentsCappedBeforeSum ==
    /\ (ta.pc = "done" /\ ta.outcome = "resolved" /\ ta.result.status # "error") =>
          LET recent == CappedPart(ta.archiveData.recentSnapshots, 40, 40)
              historical == CappedPart(ta.archiveData.snapshots, 40, 40)
              rest == ta.result.traffic_score - recent - historical
          IN /\ AtMost(recent, 40) /\ AtMost(historical, 40)
             /\ \/ ta.result.traffic_score = 100
                \/ \E website \in {0, 10}, recency \in {0, 2, 5, 10} :
                      /\ website = 10 <=> ta.dnsStatus.hasWebsite
                      /\ rest = website + recency
    /\ det.pc = "done" =>
          LET snapshots == CappedPart(det.archive.snapshots, 18, 15 * ScoreUnit)
              frequency == CappedPart(det.archive.frequency, 5, 10 * ScoreUnit)
              indexing == CappedPart(det.indexedPages, 6, 30 * ScoreUnit)
              mail == CappedPart(det.mailScore, 12, 25 * ScoreUnit)
              redirect == IF det.redirect.hasRedirect THEN 10 * ScoreUnit ELSE 0
              parked == IF det.isParked THEN 10 * ScoreUnit ELSE 0
          IN /\ AtMost(snapshots, 15 * ScoreUnit) /\ AtMost(frequency, 10 * ScoreUnit)
             /\ AtMost(indexing, 30 * ScoreUnit) /\ AtMost(mail, 25 * ScoreUnit)
             /\ det.results.traffic_score # NaN
             /\ det.results.traffic_score =
                  MathMin(snapshots + frequency + indexing + mail + redirect + parked,
                          100 * ScoreUnit)

(***************************************************************************)
(* The redirect probe by itself, for several domains, and the two fields    *)
(* it gives to the record of calculate_comprehensive_traffic_score; the     *)
(* record of InstantTrafficAnalyzer.analyze carries the two fields as       *)
(* literals.                                                                *)
(***************************************************************************)
RedirectDomains ==
    {TheDomain, <<"b", ".", "i", "o">>, <<"w", ".", "a", ".", "i", "o">>, <<"c", ".", "i", "o">>}

NoRedirectResponse == [kind |-> "none", redirects |-> 0, finalUrl |-> NoUrl]

NoRedirectRecord == [has_redirect |-> FALSE, redirect_url |-> NoUrl]

NoInstantRecord == [has_redirect |-> FALSE, redirect_url |-> Null]

RpInit ==
    /\ pf \in [pc : {"request"}, domain : RedirectDomains, resp : {NoRedirectResponse},
               redirect : {RedirectFallback}, record : {NoRedirectRecord},
               instant : {NoInstantRecord}]
    /\ est = Idle /\ ta = Idle /\ det = Idle /\ imp = Idle /\ hy = Idle /\ ab = Idle
    /\ sa = Idle /\ ps = Idle /\ ep = Idle /\ rt = Idle

\* the request settles: a response, or a rejection
RpResponse ==
    /\ pf.pc = "request"
    /\ \E resp \in RedirectResponses :
          pf' = [pf EXCEPT !.pc = "returned", !.resp = resp,
                           !.redirect = Detector_checkForActiveRedirects(resp, pf.domain)]
    /\ UNCHANGED <<est, ta, det, imp, hy, ab, sa, ps, ep, rt>>

\* results.has_redirect = hasRedirect; results.redirect_url = redirectUrl
RpRecord ==
    /\ pf.pc = "returned"
    /\ pf' = [pf EXCEPT !.pc = "recorded",
                        !.record = [has_redirect |-> pf.redirect.hasRedirect,
                                    redirect_url |-> pf.redirect.redirectUrl]]
    /\ UNCHANGED <<est, ta, det, imp, hy, ab, sa, ps, ep, rt>>

\* InstantTrafficAnalyzer.analyze makes no request
RpInstant ==
    /\ pf.pc = "request"
    /\ \E r \in Random :
          LET analysis == InstantTrafficAnalyzer_analyze(pf.domain, r, 0)
          IN pf' = [pf EXCEPT !.pc = "instant",
                              !.instant = [has_redirect |-> analysis.has_redirect,
                                           redirect_url |-> analysis.redirect_url]]
    /\ UNCHANGED <<est, ta, det, imp, hy, ab, sa, ps, ep, rt>>

RpNext == RpResponse \/ RpRecord \/ RpInstant

SpecRedirect == RpInit /\ [][RpNext]_vars

\* the text holds the part somewhere
Contains(text, part) ==
    \E i \in 1..Len(text) : \E j \in i..Len(text) :
        j - i + 1 = Len(part) /\ \A k \in 1..Len(part) : text[i + k - 1] = part[k]

\* C27: the redirect probe reports has_redirect exactly when the request
\* followed at least one redirect and the final URL does not contain the
\* domain; in every record redirect_url is non-null exactly when has_redirect
\* is true, on a failed probe and in the heuristic record too.
C27_RedirectReported ==
    /\ pf.pc \in {"returned", "recorded"} =>
          /\ pf.redirect.hasRedirect <=>
                (pf.resp.kind = "ok" /\ pf.resp.redirects >= 1
                    /\ ~Contains(pf.resp.finalUrl, pf.domain))
          /\ pf.redirect.hasRedirect <=> pf.redirect.redirectUrl # NoUrl
    /\ pf.pc = "recorded" =>
          /\ pf.record.has_redirect = pf.redirect.hasRedirect
          /\ pf.record.has_redirect <=> pf.record.redirect_url # NoUrl
    /\ pf.pc = "instant" => (~pf.instant.has_redirect /\ pf.instant.redirect_url = Null)

C27_Witness ==
    /\ pf.pc = "recorded" /\ pf.domain = TheDomain
    /\ pf.resp.redirects = 1 /\ pf.resp.finalUrl = UrlOther
    /\ pf.record.has_redirect /\ pf.record.redirect_url = UrlOther

(***************************************************************************)
(* The mail probe by itself, one await after the other; the score is in     *)
(* halves of a point.                                                       *)
(***************************************************************************)
\* what the resolver has for the MX and the TXT records of the domain and for
\* the TXT records of _dmarc.<domain>: an error, or n records (for txt, the n
\* records that hold 'spf')
MpInit ==
    /\ pf \in [pc : {"mx"}, mx : MxLookups, txt : TxtLookups, dmarc : TxtLookups,
                mailScore : {0}, returned : {NaN}]
    /\ est = Idle /\ ta = Idle /\ det = Idle /\ imp = Idle /\ hy = Idle /\ ab = Idle
    /\ sa = Idle /\ ps = Idle /\ ep = Idle /\ rt = Idle

\* try { mxRecords = await resolveMx(domain); mailScore += length * 2 } catch {}
MpMx ==
    /\ pf.pc = "mx"
    /\ pf' = [pf EXCEPT !.pc = "txt",
                        !.mailScore = IF pf.mx.ok THEN @ + pf.mx.n * 4 ELSE @]
    /\ UNCHANGED <<est, ta, det, imp, hy, ab, sa, ps, ep, rt>>

\* the second try: resolveTxt(domain); a rejection leaves the block
MpTxt ==
    /\ pf.pc = "txt"
    /\ pf' = IF pf.txt.ok
             THEN [pf EXCEPT !.pc = "dmarc", !.mailScore = @ + pf.txt.n * 3]
             ELSE [pf EXCEPT !.pc = "return"]
    /\ UNCHANGED <<est, ta, det, imp, hy, ab, sa, ps, ep, rt>>

\* still in the second try: resolveTxt(`_dmarc.${domain}`)
MpDmarc ==
    /\ pf.pc = "dmarc"
    /\ pf' = [pf EXCEPT !.pc = "return",
                        !.mailScore = IF pf.dmarc.ok THEN @ + pf.dmarc.n * 3 ELSE @]
    /\ UNCHANGED <<est, ta, det, imp, hy, ab, sa, ps, ep, rt>>

\* return mailScore
MpReturn ==
    /\ pf.pc = "return"
    /\ pf' = [pf EXCEPT !.pc = "returned", !.returned = pf.mailScore]
    /\ UNCHANGED <<est, ta, det, imp, hy, ab, sa, ps, ep, rt>>

MpNext == MpMx \/ MpTxt \/ MpDmarc \/ MpReturn

SpecMail == MpInit /\ [][MpNext]_vars

\* C28: the three lookups of the mail probe are isolated from each other: the
\* score is 2 per MX record + 1.5 per SPF record + 1.5 per _dmarc record (4,
\* 3 and 3 halves), a failed lookup giving 0 for its own term and leaving the
\* terms of the lookups that would succeed.
C28_MailLookupsIsolated ==
    pf.pc = "returned" =>
        pf.returned = (IF pf.mx.ok THEN 4 * pf.mx.n ELSE 0)
                       + (IF pf.txt.ok THEN 3 * pf.txt.n ELSE 0)
                       + (IF pf.dmarc.ok THEN 3 * pf.dmarc.n ELSE 0)

\* the steps of the events emitted so far
SaSteps == [i \in 1..Len(sa.events) |-> sa.events[i].step]

IsPrefix(s, t) == Len(s) <= Len(t) /\ \A i \in 1..Len(s) : s[i] = t[i]

\* the errors of the store: the domain is missing, a read or a write failed
\* after its retries or timed out
StoreFailures == {DomainNotFoundInDatabase, OperationTimedOut, "store error"}

\* C29: in the store-backed analyzeDomain the 'complete' event (100) comes
\* only after the update and the re-read of the row have succeeded; a run
\* that fails on the store (domain missing, a read or a write failing)
\* emits no 'complete', rejects, and has emitted a prefix of start, analyze,
\* update.
C29_CompleteOnlyAfterUpdate ==
    sa.pc # "idle" =>
        /\ (\E i \in 1..Len(sa.events) : sa.events[i].step = "complete") =>
              /\ sa.error \notin StoreFailures
              /\ sa.row # <<>> /\ sa.analysis # <<>>
              /\ sa.row[1].traffic_score = sa.analysis[1].traffic_score
              /\ sa.events[Len(sa.events)] = [step |-> "complete", progress |-> 100]
        /\ sa.error \in StoreFailures =>
              /\ sa.pc = "done" /\ sa.outcome = "rejected"
              /\ IsPrefix(SaSteps, <<"start", "analyze", "update">>)

C29_Witness ==
    /\ sa.pc = "done" /\ sa.outcome = "rejected" /\ sa.error = "store error"
    /\ SaSteps = <<"start", "analyze", "update">>
    /\ sa.row = <<PendingRow>>

====
